---------------------------- MODULE Spec2Model ----------------------------
(***************************************************************************)
(* A model of the calm-dsl entity compiler: the Project compile hook       *)
(* (builtins/models/project.py), the provider-spec descriptor              *)
(* (builtins/models/provider_spec.py), the account payload assembly and    *)
(* the create / update commands (cli/accounts.py, cli/account_commands.py) *)
(* and the configuration context (config/config.py).                       *)
(*                                                                         *)
(* Python dicts are functions over strings (a key is present iff it is in  *)
(* the DOMAIN); Python lists are sequences; an insertion-ordered dict that *)
(* is iterated (the quota map) is a sequence of <<key, value>> pairs with  *)
(* distinct keys.  Python integers are unbounded, so a value that can      *)
(* exceed 32 bits is a little-endian sequence of base-10000 limbs.         *)
(***************************************************************************)
EXTENDS Integers, Sequences, FiniteSets, TLC

VARIABLES
    pdecl,      \* Project: the mapping super().compile() hands to the hook
    cdict,      \* Project: the mapping the hook returns
    ppc,        \* Project: "declared" before the hook ran, "compiled" after
    psSpec,     \* ProviderSpec: self.spec, the raw specification blob
    psProviderType, \* ProviderSpec: cls.provider_type of the owning substrate
    psValidatorOk,  \* ProviderSpec: whether the provider's validate_spec accepts
    psCalls,    \* ProviderSpec: the provider types validate_spec was invoked for
    psResult,   \* ProviderSpec: the outcome of the attribute access
    userAccount,    \* Account: the Account class found in the file, or NoAccount
    uuidNext,   \* Account: how many values uuid.uuid4() has produced, plus one
    compiled,   \* Account: what compile_account returned
    apc,        \* Account: position of the command being run
    cmd,        \* Flow: the command, "create" or "update"
    nameArg,    \* Flow: the name argument ("" for None)
    updatedNameArg, \* Flow: the updated_name argument ("" for None)
    working,    \* Flow: the local account_payload about to be submitted
    requests,   \* Flow: the requests issued so far, in order
    flowResult, \* Flow: "running", "error", "raised", "returned", "returned_error",
                \*       "not_called"
    accountFile,    \* Flow: the account_file argument
    autoVerify, \* Flow: the --auto-verify flag
    flowReturn, \* Flow: the (res, err) pair create_account_from_dsl or
                \*       update_account_from_* returned
    verifyCalls,    \* Flow: the account names verify_account was called with
    cmdResult,  \* Flow: how the command ended: "running", "returned",
                \*       "error_logged", "exit" (sys.exit(-1)), "raised"
    files,      \* Config: the files on disk, path |-> the items written in them
    CONFIG_HANDLE,  \* Config: the module global _CONFIG_HANDLE, NoHandle for None
    handleCount,    \* Config: how many ConfigHandle objects were constructed
    cfgLog,     \* Config: the calls made so far, with what each saw and returned
    delNames,   \* Delete: the account_names argument
    delDone,    \* Delete: how each name processed so far ended, in order
    delRequests,    \* Delete: the requests issued on the client, in order
    delSynced,  \* Delete: the cache_type argument of every Cache.sync_table call
    delResult,  \* Delete: "running", "raised" or "returned"
    recKind,    \* Recompile: "project" or "account", the definition compiled again
    heap,       \* Recompile: the objects alive in the process, by identity
    runs        \* Recompile: what each compile call returned, in order

projectVars == <<pdecl, cdict, ppc>>

providerSpecVars == <<psSpec, psProviderType, psValidatorOk, psCalls, psResult>>

accountVars == <<userAccount, uuidNext, compiled, apc>>

flowArgs == <<cmd, nameArg, updatedNameArg, accountFile, autoVerify>>

flowVars == <<flowArgs, working, requests, flowResult, flowReturn, verifyCalls, cmdResult>>

configVars == <<files, CONFIG_HANDLE, handleCount, cfgLog>>

deleteVars == <<delNames, delDone, delRequests, delSynced, delResult>>

recompileVars == <<recKind, heap, runs>>

auxVars == <<deleteVars, recompileVars>>

vars == <<projectVars, providerSpecVars, accountVars, flowVars, configVars, auxVars>>

--------------------------------------------------------------------------
(* Dict helpers *)

EmptyDict == [x \in {} |-> x]

Has(d, k) == k \in DOMAIN d

Get(d, k, default) == IF Has(d, k) THEN d[k] ELSE default

Put(d, k, v) == [x \in DOMAIN d \cup {k} |-> IF x = k THEN v ELSE d[x]]

Pop(d, k) == [x \in DOMAIN d \ {k} |-> d[x]]

Merge(a, b) == [x \in DOMAIN a \cup DOMAIN b |-> IF x \in DOMAIN b THEN b[x] ELSE a[x]]

OptField(k, S) == {EmptyDict} \cup {Put(EmptyDict, k, v) : v \in S}

SeqsUpTo(S, n) == UNION {[1..m -> S] : m \in 0..n}

--------------------------------------------------------------------------
(* Unbounded Python integers as base-10000 limbs, least significant first *)

RECURSIVE ToBig(_)
ToBig(n) == IF n < 10000 THEN <<n>> ELSE <<n % 10000>> \o ToBig(n \div 10000)

RECURSIVE MulCarry(_, _, _)
MulCarry(b, k, carry) ==
    IF b = <<>>
    THEN IF carry = 0 THEN <<>> ELSE ToBig(carry)
    ELSE LET t == Head(b) * k + carry
         IN  <<t % 10000>> \o MulCarry(Tail(b), k, t \div 10000)

RECURSIVE Strip(_)
Strip(b) == IF Len(b) > 1 /\ b[Len(b)] = 0 THEN Strip(SubSeq(b, 1, Len(b) - 1)) ELSE b

\* big * k for a machine-size k >= 0
BigMul(b, k) == Strip(MulCarry(b, k, 0))

GiB == 1073741824

--------------------------------------------------------------------------
(* Project compile hook: ProjectType.compile *)

AccountRefs == {"acc1", "acc2"}
ProviderTypes == {"nutanix_pc", "aws"}
SubnetLists == {<<"A", "B">>}
ExternalLists == {<<"X", "Y">>}
DefaultSubnets == {"A", "B"}
QuotaKeys == {"STORAGE", "MEMORY", "VCPUS"}
QuotaValues == {2, 5}

MaxProviders == 2
MaxQuotas == 2

\* a declared provider sub-entity, as compiled: provider_type and
\* account_reference always, the three network fields when declared
ProviderObjs ==
    { Merge(Merge(Merge(b, s), e), d) :
        b \in [provider_type : ProviderTypes, account_reference : AccountRefs],
        s \in OptField("subnet_reference_list", SubnetLists),
        e \in OptField("external_network_list", ExternalLists),
        d \in OptField("default_subnet_reference", DefaultSubnets) }

\* an insertion-ordered quota dict: pairs with distinct keys
QuotaMaps(n) ==
    { q \in SeqsUpTo(QuotaKeys \X QuotaValues, n) :
        \A i, j \in 1..Len(q) : i # j => q[i][1] # q[j][1] }

\* the project's own fields in the mapping returned by super().compile()
OwnFields ==
    { [name |-> "proj"],
      [name |-> "proj", subnet_reference_list |-> <<"S0">>,
       external_network_list |-> <<"E0">>, default_subnet_reference |-> "D0"] }

\* the default subnet written only while the project has none
NutanixNetworksKeepDefault(c, p) ==
    LET c1 == IF Has(p, "subnet_reference_list")
              THEN Put(c, "subnet_reference_list",
                       Get(c, "subnet_reference_list", <<>>) \o p["subnet_reference_list"])
              ELSE IF Has(p, "external_network_list")
              THEN Put(c, "external_network_list",
                       Get(c, "external_network_list", <<>>) \o p["external_network_list"])
              ELSE c
    IN  IF Has(p, "default_subnet_reference") /\ ~Has(c1, "default_subnet_reference")
        THEN Put(c1, "default_subnet_reference", p["default_subnet_reference"])
        ELSE c1

\* lines 26-39: one nutanix_pc provider's network fields
NutanixNetworks(c, p) ==
    LET c1 == IF Has(p, "subnet_reference_list")
              THEN Put(c, "subnet_reference_list",
                       (IF Has(c, "subnet_reference_list")
                        THEN c["subnet_reference_list"] ELSE <<>>)
                       \o p["subnet_reference_list"])
              ELSE IF Has(p, "external_network_list")
              THEN Put(c, "external_network_list",
                       (IF Has(c, "external_network_list")
                        THEN c["external_network_list"] ELSE <<>>)
                       \o p["external_network_list"])
              ELSE c
    IN  IF Has(p, "default_subnet_reference")
        THEN Put(c1, "default_subnet_reference", p["default_subnet_reference"])
        ELSE c1

\* the account reference appended inside the nutanix_pc branch
PopulateProviderNutanixOnly(c, p) ==
    IF p["provider_type"] = "nutanix_pc"
    THEN LET c1 == NutanixNetworks(c, p)
         IN  Put(c1, "account_reference_list",
                 Append(c1["account_reference_list"], p["account_reference"]))
    ELSE c

\* lines 24-41: the body of the provider loop
PopulateProvider(c, p) ==
    LET c1 == IF p["provider_type"] = "nutanix_pc" THEN NutanixNetworks(c, p) ELSE c
    IN  Put(c1, "account_reference_list",
            Append(c1["account_reference_list"], p["account_reference"]))

RECURSIVE PopulateAccounts(_, _)
PopulateAccounts(c, ps) ==
    IF ps = <<>> THEN c ELSE PopulateAccounts(PopulateProvider(c, Head(ps)), Tail(ps))

\* a slip in the key test: the CPU count is scaled like the rest
QuotaResourceScaleAll(qk, qv) ==
    [limit |-> BigMul(ToBig(GiB), qv), resource_type |-> qk]

\* lines 47-50: one quota entry
QuotaResource(qk, qv) ==
    [limit |-> IF qk # "VCPUS" THEN BigMul(ToBig(GiB), qv) ELSE ToBig(qv),
     resource_type |-> qk]

\* the quota map read with get and removed only inside the conversion
ConvertQuotasKeepEmpty(c) ==
    LET quotas == IF Has(c, "quotas") THEN c["quotas"] ELSE <<>>
    IN  IF quotas # <<>>
        THEN Put(Pop(c, "quotas"), "resource_domain",
                 [resources |-> [i \in 1..Len(quotas) |->
                                    QuotaResource(quotas[i][1], quotas[i][2])]])
        ELSE c

\* lines 43-52
ConvertQuotas(c) ==
    LET quotas == IF Has(c, "quotas") THEN c["quotas"] ELSE <<>>
        c1 == Pop(c, "quotas")
    IN  IF quotas # <<>>
        THEN Put(c1, "resource_domain",
                 [resources |-> [i \in 1..Len(quotas) |->
                                    QuotaResource(quotas[i][1], quotas[i][2])]])
        ELSE c1

\* lines 16-57
ProjectCompile(d) ==
    LET c0 == Put(d, "account_reference_list", <<>>)
        provider_list == IF Has(c0, "provider_list") THEN c0["provider_list"] ELSE <<>>
        c1 == PopulateAccounts(Pop(c0, "provider_list"), provider_list)
        c2 == ConvertQuotas(c1)
    IN  Pop(c2, "environment_definition_list")

\* what super().compile() can hand to the hook
DeclOf(own, pl, q, env) == Merge(Merge(Merge(own, pl), q), env)

DrawDecl(maxProviders, quotaMaps) ==
    \E own \in OwnFields :
    \E pl \in OptField("provider_list", SeqsUpTo(ProviderObjs, maxProviders)) :
    \E q \in OptField("quotas", quotaMaps) :
    \E env \in OptField("environment_definition_list", {<<"env1">>}) :
        pdecl = DeclOf(own, pl, q, env)

CompileProject ==
    /\ ppc = "declared"
    /\ cdict' = ProjectCompile(pdecl)
    /\ ppc' = "compiled"
    /\ UNCHANGED <<pdecl, providerSpecVars, accountVars, flowVars, configVars, auxVars>>

ProjectIdle ==
    /\ pdecl = EmptyDict
    /\ cdict = EmptyDict
    /\ ppc = "idle"

FlowIdle ==
    /\ cmd = "none"
    /\ nameArg = ""
    /\ updatedNameArg = ""
    /\ working = EmptyDict
    /\ requests = <<>>
    /\ flowResult = "idle"
    /\ accountFile = EmptyDict
    /\ autoVerify = FALSE
    /\ flowReturn = EmptyDict
    /\ verifyCalls = <<>>
    /\ cmdResult = "idle"

AccountIdle ==
    /\ userAccount = EmptyDict
    /\ uuidNext = 1
    /\ compiled = EmptyDict
    /\ apc = "idle"
    /\ FlowIdle

DeleteIdle ==
    /\ delNames = <<>>
    /\ delDone = <<>>
    /\ delRequests = <<>>
    /\ delSynced = <<>>
    /\ delResult = "idle"

RecompileIdle ==
    /\ recKind = "idle"
    /\ heap = EmptyDict
    /\ runs = <<>>

AuxIdle == DeleteIdle /\ RecompileIdle

ConfigIdle ==
    /\ files = EmptyDict
    /\ CONFIG_HANDLE = EmptyDict
    /\ handleCount = 0
    /\ cfgLog = <<>>

ProviderSpecIdle ==
    /\ psSpec = EmptyDict
    /\ psProviderType = "AHV_VM"
    /\ psValidatorOk = TRUE
    /\ psCalls = <<>>
    /\ psResult = [status |-> "idle"]

\* providers vary, the quota map is one of three
InitProject ==
    /\ DrawDecl(MaxProviders, {<<>>, << <<"STORAGE", 5>>, <<"VCPUS", 2>> >>})
    /\ cdict = EmptyDict
    /\ ppc = "declared"
    /\ ProviderSpecIdle
    /\ AccountIdle
    /\ ConfigIdle
    /\ AuxIdle

NextProject == CompileProject

SpecProject == InitProject /\ [][NextProject]_vars

\* the quota map varies, the provider list is short
InitQuota ==
    /\ DrawDecl(1, QuotaMaps(MaxQuotas))
    /\ cdict = EmptyDict
    /\ ppc = "declared"
    /\ ProviderSpecIdle
    /\ AccountIdle
    /\ ConfigIdle
    /\ AuxIdle

NextQuota == CompileProject

SpecQuota == InitQuota /\ [][NextQuota]_vars

--------------------------------------------------------------------------
(* Provider-spec descriptor: ProviderSpec.__get__ *)

spec_provider_map ==
    [k \in {"PROVISION_AHV_VM", "PROVISION_VMWARE_VM", "PROVISION_GCP_VM",
            "PROVISION_EXISTING_MACHINE", "PROVISION_AWS_VM", "PROVISION_AZURE_VM"} |->
        CASE k = "PROVISION_AHV_VM" -> "AHV_VM"
          [] k = "PROVISION_VMWARE_VM" -> "VMWARE_VM"
          [] k = "PROVISION_GCP_VM" -> "GCP_VM"
          [] k = "PROVISION_EXISTING_MACHINE" -> "EXISTING_VM"
          [] k = "PROVISION_AWS_VM" -> "AWS_VM"
          [] k = "PROVISION_AZURE_VM" -> "AZURE_VM"]

\* the kinds a spec file can declare: those of the table and one that is not
SpecKinds == DOMAIN spec_provider_map \cup {"PROVISION_K8S_POD"}

SubstrateTypes == {spec_provider_map[k] : k \in DOMAIN spec_provider_map} \cup {"K8S_POD"}

\* a spec body, with or without a declared "type"
SpecBlobs == { Merge([name |-> "vm1"], t) : t \in OptField("type", SpecKinds) }

\* another kind taken for a spec that declares none
DeclaredKindDefaultsVmware(spec) ==
    IF Has(spec, "type") THEN spec["type"] ELSE "PROVISION_VMWARE_VM"

\* line 40: self.spec.get("type", "PROVISION_AHV_VM")
DeclaredKind(spec) == IF Has(spec, "type") THEN spec["type"] ELSE "PROVISION_AHV_VM"

\* lines 31-36: __validate__
Validate(spec, provider_type, accepts) ==
    IF accepts THEN [status |-> "ok", spec |-> spec]
    ELSE [status |-> "validator_error"]

\* the table lookup of line 41 left out: the declared kind itself is
\* compared with the substrate's provider type
TypeMismatchUnmapped(kind, provider_type) == kind # provider_type

\* lines 41-43: the resolved spec type differs from cls.provider_type
TypeMismatch(kind, provider_type) == spec_provider_map[kind] # provider_type

\* lines 38-50: __get__
ProviderSpecGet(spec, provider_type, accepts) ==
    LET kind == DeclaredKind(spec)
    IN  IF kind \notin DOMAIN spec_provider_map
        THEN [status |-> "KeyError"]
        ELSE IF TypeMismatch(kind, provider_type)
        THEN [status |-> "TypeError", substrate |-> provider_type,
              spec_type |-> spec_provider_map[kind]]
        ELSE Validate(spec, provider_type, accepts)

\* the structural validation run first, ahead of the agreement check
ValidatorReachedFirst(spec, provider_type) == TRUE

\* __validate__ is reached only from the last line of __get__
ValidatorReached(spec, provider_type) ==
    /\ DeclaredKind(spec) \in DOMAIN spec_provider_map
    /\ ~TypeMismatch(DeclaredKind(spec), provider_type)

AccessProviderSpec ==
    /\ psResult["status"] = "pending"
    /\ psResult' = ProviderSpecGet(psSpec, psProviderType, psValidatorOk)
    /\ psCalls' = IF ValidatorReached(psSpec, psProviderType)
                  THEN Append(psCalls, psProviderType) ELSE psCalls
    /\ UNCHANGED <<psSpec, psProviderType, psValidatorOk, projectVars, accountVars, flowVars,
                   configVars, auxVars>>

InitProviderSpec ==
    /\ psSpec \in SpecBlobs
    /\ psProviderType \in SubstrateTypes
    /\ psValidatorOk \in BOOLEAN
    /\ psCalls = <<>>
    /\ psResult = [status |-> "pending"]
    /\ ProjectIdle
    /\ AccountIdle
    /\ ConfigIdle
    /\ AuxIdle

NextProviderSpec == AccessProviderSpec

SpecProviderSpec == InitProviderSpec /\ [][NextProviderSpec]_vars

--------------------------------------------------------------------------
(* Account payload assembly: compile_account and the payload builders *)

VarTypes == {"SECRET", "LOCAL"}
\* an identifier an element carries before it reaches the stamper
DeclaredUuids == {"declared-1"}
DeclaredNames == {"", "vault"}
ActionLists == {<<>>, <<[name |-> "Verify"]>>}

MaxAuth == 2
MaxVars == 1

\* str(uuid.uuid4()): the n-th value of a generator that never repeats
UuidOf(n) == "uuid4-" \o ToString(n)

VarShapes ==
    { Merge([type |-> t, value |-> "v"], u) :
        t \in VarTypes, u \in OptField("uuid", DeclaredUuids) }

\* variable lists of up to n elements; the i-th element is named after i
VarLists(n) ==
    UNION { { [i \in 1..m |-> Put(f[i], "name", "var" \o ToString(i))] :
                f \in [1..m -> VarShapes] } : m \in 0..n }

\* the file holds no Account class: get_account_class_from_module gives None
NoAccount == EmptyDict

NonePayload == EmptyDict

\* the declared Account class
AccountOf(t, nm, auth, vs, cs, al) ==
    [cls_name |-> "MyAccount", name |-> nm, type |-> t, auth_schema_list |-> auth,
     variables |-> vs, cred_attrs |-> cs, action_list |-> al]

\* UserAccount.get_dict(): a fresh compiled mapping on every call
GetDict(acct) ==
    [type |-> acct["type"],
     data |-> [auth_schema_list |-> acct["auth_schema_list"],
               resource_config |-> [variables |-> acct["variables"],
                                    cred_attrs |-> acct["cred_attrs"],
                                    action_list |-> acct["action_list"]]]]

\* UserAccount.resources.get_dict()
ResourcesGetDict(acct) == GetDict(acct)["data"]

\* getattr(UserAccount, "name", "") or getattr(UserAccount, "__name__", "")
AccountName(acct) == IF acct["name"] # "" THEN acct["name"] ELSE acct["cls_name"]

\* the marker written without its type field
MarkSecretNoType(v) ==
    IF v["type"] = "SECRET" THEN Put(v, "attrs", [is_secret_modified |-> TRUE]) ELSE v

\* lines 336-337, 379-380, 383-384, 434-435
MarkSecret(v) ==
    IF v["type"] = "SECRET"
    THEN Put(v, "attrs", [is_secret_modified |-> TRUE, type |-> "SECRET"])
    ELSE v

\* one uuid generated before the loop and given to every element
StampAuthSchemaSameId(list, n) ==
    [i \in 1..Len(list) |->
        MarkSecret(Put(Put(list[i], "value", ""), "uuid", UuidOf(n)))]

\* an element that carries an identifier keeps it (dict.setdefault)
StampAuthSchemaKeep(list, n) ==
    [i \in 1..Len(list) |->
        MarkSecret(IF Has(list[i], "uuid") THEN Put(list[i], "value", "")
                   ELSE Put(Put(list[i], "value", ""), "uuid", UuidOf(n + i - 1)))]

\* lines 431-435: the provider's auth_schema_list loop; n is the first unused
\* generator position
StampAuthSchema(list, n) ==
    [i \in 1..Len(list) |->
        MarkSecret(Put(Put(list[i], "value", ""), "uuid", UuidOf(n + i - 1)))]

\* lines 420-444
CreateProviderPayload(acct, n) ==
    LET name == AccountName(acct)
        auth_schema_list == Get(Get(GetDict(acct), "data", EmptyDict),
                                "auth_schema_list", <<>>)
    IN  [payload |->
            [spec |-> [name |-> name,
                       resources |-> [auth_schema_list |->
                                         StampAuthSchema(auth_schema_list, n + 1)]],
             metadata |-> [kind |-> "provider", uuid |-> UuidOf(n)]],
         next |-> n + 1 + Len(auth_schema_list)]

\* utils.insert_uuid: every action gets the identifier recorded for its name
\* in name_uuid_map, a fresh one the first time the name is met
RECURSIVE InsertUuid(_, _, _)
InsertUuid(actions, name_uuid_map, n) ==
    IF actions = <<>>
    THEN [out |-> <<>>, next |-> n]
    ELSE LET a == Head(actions)
             known == Has(name_uuid_map, a["name"])
             id == IF known THEN name_uuid_map[a["name"]] ELSE UuidOf(n)
             rest == InsertUuid(Tail(actions), Put(name_uuid_map, a["name"], id),
                                IF known THEN n ELSE n + 1)
         IN  [out |-> <<Put(a, "uuid", id)>> \o rest["out"], next |-> rest["next"]]

\* lines 378-384: secret marking of the input and output variables
MarkSecrets(list) == [i \in 1..Len(list) |-> MarkSecret(list[i])]

\* lines 398-401: identifiers of the input and output variables
StampVars(list, n) == [i \in 1..Len(list) |-> Put(list[i], "uuid", UuidOf(n + i - 1))]

\* the reference left without the provider's identifier
ProviderReferenceBlank(provider_uuid) == [kind |-> "provider", uuid |-> ""]

\* line 403
ProviderReference(provider_uuid) == [kind |-> "provider", uuid |-> provider_uuid]

\* lines 365-417
CreateResourceTypePayload(acct, provider_uuid, n) ==
    LET name == AccountName(acct)
        resources == Get(Get(GetDict(acct), "data", EmptyDict),
                         "resource_config", EmptyDict)
        input_vars == MarkSecrets(Get(resources, "variables", <<>>))
        output_vars == MarkSecrets(Get(resources, "cred_attrs", <<>>))
        actions == InsertUuid(Get(resources, "action_list", <<>>), EmptyDict, n + 1)
        n1 == actions["next"]
        n2 == n1 + Len(input_vars)
    IN  [payload |->
            [spec |-> [name |-> name,
                       resources |->
                          [provider_reference |-> ProviderReference(provider_uuid),
                           variable_list |-> StampVars(input_vars, n1),
                           schema_list |-> StampVars(output_vars, n2),
                           action_list |-> actions["out"]]],
             metadata |-> [kind |-> "resource_type", name |-> name, uuid |-> UuidOf(n)]],
         next |-> n2 + Len(output_vars)]

\* lines 334-337: the account's variable_list loop
StampAccountVariables(list, n) ==
    [i \in 1..Len(list) |-> MarkSecret(Put(list[i], "uuid", UuidOf(n + i - 1)))]

\* the account made to point at the resource-type payload itself
AccountReferenceToResourceType(resource_type_payload) ==
    [kind |-> "resource_type", uuid |-> resource_type_payload["metadata"]["uuid"]]

\* lines 339-343: the reference the account payload embeds
AccountProviderReference(resource_type_payload) ==
    Get(Get(Get(resource_type_payload, "spec", EmptyDict), "resources", EmptyDict),
        "provider_reference", EmptyDict)

\* lines 293-362
CreateCredentialProviderAccountPayload(acct, n) ==
    LET provider == CreateProviderPayload(acct, n)
        provider_uuid == provider["payload"]["metadata"]["uuid"]
        resource_type == CreateResourceTypePayload(acct, provider_uuid, provider["next"])
        n1 == resource_type["next"]
        account_name == AccountName(acct)
        variable_list == Get(ResourcesGetDict(acct), "auth_schema_list", <<>>)
        account_payload ==
            [spec |-> [name |-> account_name,
                       resources |->
                          [type |-> "custom_provider",
                           data |-> [provider_reference |->
                                        AccountProviderReference(resource_type["payload"]),
                                     variable_list |->
                                        StampAccountVariables(variable_list, n1 + 1)]]],
             metadata |-> [kind |-> "account", name |-> account_name, uuid |-> UuidOf(n1)]]
    IN  [payload |-> [provider |-> provider["payload"],
                      resource_type |-> resource_type["payload"],
                      account |-> account_payload],
         next |-> n1 + 1 + Len(variable_list)]

\* the generated identifier used as the name of the account as well
CreateAccountPayloadNamedById(acct, n) ==
    [payload |-> [spec |-> [name |-> UuidOf(n), resources |-> GetDict(acct)],
                  metadata |-> [kind |-> "account", name |-> acct["cls_name"],
                                uuid |-> UuidOf(n)]],
     next |-> n + 1]

\* lines 272-290
CreateAccountPayload(acct, n) ==
    [payload |-> [spec |-> [name |-> acct["cls_name"], resources |-> GetDict(acct)],
                  metadata |-> [kind |-> "account", name |-> acct["cls_name"],
                                uuid |-> UuidOf(n)]],
     next |-> n + 1]

\* the bundle built for the type the payload is tagged with
CompileAccountPayloadByTag(acct, n) ==
    IF acct = NoAccount
    THEN [payload |-> NonePayload, next |-> n]
    ELSE LET single == CreateAccountPayload(acct, n)
         IN  IF acct["type"] = "custom_provider"
             THEN CreateCredentialProviderAccountPayload(acct, single["next"])
             ELSE single

\* lines 159-175
CompileAccountPayload(acct, n) ==
    IF acct = NoAccount
    THEN [payload |-> NonePayload, next |-> n]
    ELSE LET single == CreateAccountPayload(acct, n)
         IN  IF acct["type"] = "credential_provider"
             THEN CreateCredentialProviderAccountPayload(acct, single["next"])
             ELSE single

\* lines 178-202: compile_account_command, up to the payload it prints
CompileAccount ==
    /\ apc = "declared"
    /\ LET r == CompileAccountPayload(userAccount, uuidNext)
       IN  /\ compiled' = r["payload"]
           /\ uuidNext' = r["next"]
    /\ apc' = "compiled"
    /\ UNCHANGED <<userAccount, projectVars, providerSpecVars, flowVars, configVars, auxVars>>

\* account types other than "credential_provider"
PlainTypes == {"aws", "custom_provider"}

DrawAccount(maxAuth, maxVars) ==
    \/ userAccount = NoAccount
    \/ \E nm \in DeclaredNames, t \in PlainTypes :
           userAccount = AccountOf(t, nm, <<>>, <<>>, <<>>, <<>>)
    \/ \E nm \in DeclaredNames, auth \in VarLists(maxAuth), vs \in VarLists(maxVars),
          cs \in VarLists(maxVars), al \in ActionLists :
           userAccount = AccountOf("credential_provider", nm, auth, vs, cs, al)

InitAccount ==
    /\ DrawAccount(MaxAuth, MaxVars)
    /\ uuidNext = 1
    /\ compiled = NonePayload
    /\ apc = "declared"
    /\ FlowIdle
    /\ ProjectIdle
    /\ ProviderSpecIdle
    /\ ConfigIdle
    /\ AuxIdle

NextAccount == CompileAccount

SpecAccount == InitAccount /\ [][NextAccount]_vars

--------------------------------------------------------------------------
(* Account create and update commands: create_account_command,
   create_account_from_dsl, create_account, update_account_command,
   update_account_from_json, update_account_from_dsl, update_account,
   get_account, verify_account *)

MaxFlowAuth == 1

\* the account_file argument; str.endswith looks at the suffix only
AccountFiles == {[stem |-> "account", suffix |-> s] : s \in {".py", ".json", ".yaml"}}

EndsWith(file, suffix) == file["suffix"] = suffix

\* what the server holds for the account and the provider being updated
RemoteAccount == [metadata |-> [uuid |-> "remote-account", spec_version |-> 4]]
RemoteProvider == [metadata |-> [uuid |-> "remote-provider"]]

\* how a lookup by name can end: the list call fails, it matches no entity,
\* it matches several, the read of the one match fails, or the account is read
LookupOutcomes == {"list_error", "none", "many", "read_error", "ok"}

\* lines 130-156: the requests get_account issues
GetAccountRequests(account_name, outcome) ==
    <<[api |-> "account", op |-> "list", name |-> account_name]>>
    \o (IF outcome \in {"read_error", "ok"}
        THEN <<[api |-> "account", op |-> "read", uuid |-> RemoteAccount["metadata"]["uuid"]]>>
        ELSE <<>>)

\* lines 134-153: get_account raises unless exactly one account is read
GetAccountRaises(outcome) == outcome # "ok"

\* lines 210-215, 863-868: the type tag read through the "account" key
BundleTag(payload) ==
    Get(Get(Get(Get(payload, "account", EmptyDict), "spec", EmptyDict),
            "resources", EmptyDict), "type", "")

\* the provider step left out of the create flow: a bundle goes straight to
\* its resource type
AfterCompileSkipsProvider(c, payload) ==
    IF payload = NonePayload THEN "done"
    ELSE IF BundleTag(payload) = "custom_provider"
    THEN IF c = "create" THEN "create_resource_type" ELSE "update_lookup"
    ELSE IF c = "create" THEN "account_create" ELSE "update_account"

\* the None test left out of the update: the account is looked up first
AfterCompileLooksUpFirst(c, payload) ==
    IF payload = NonePayload THEN (IF c = "create" THEN "done" ELSE "update_lookup")
    ELSE IF BundleTag(payload) = "custom_provider"
    THEN IF c = "create" THEN "create_provider" ELSE "update_lookup"
    ELSE IF c = "create" THEN "account_create" ELSE "update_account"

\* lines 247-252, 218 and 858-871: where a command goes once it has compiled
AfterCompile(c, payload) ==
    IF payload = NonePayload THEN "done"
    ELSE IF BundleTag(payload) = "custom_provider"
    THEN IF c = "create" THEN "create_provider" ELSE "update_lookup"
    ELSE IF c = "create" THEN "account_create" ELSE "update_account"

\* nothing returned yet
NoReturn == [res |-> EmptyDict, err |-> EmptyDict]

\* lines 248-250, 859-861: (None, err)
NotFoundReturn(file) ==
    [res |-> EmptyDict,
     err |-> [error |-> "User account not found in " \o file["stem"] \o file["suffix"],
              code |-> -1]]

\* the status a created or updated account can come back with
ResponseStatuses ==
    {EmptyDict} \cup {[resources |-> [state |-> st]] : st \in {"DRAFT", "ACTIVE", "VERIFIED"}}

\* what client.account.create / client.account.update return: (res, None)
\* with the stored account, or (None, err)
ClientReturns(account_name) ==
    { [res |-> Merge([metadata |-> [uuid |-> RemoteAccount["metadata"]["uuid"],
                                    name |-> account_name]], st),
       err |-> EmptyDict] : st \in OptField("status", ResponseStatuses) }
    \cup {[res |-> EmptyDict, err |-> [error |-> "server error", code |-> 500]]}

ReturnKind(r) == IF r["err"] # EmptyDict THEN "returned_error" ELSE "returned"

\* lines 146-152, 900-910: the formats a command dispatches on
FormatHandled(c, file) ==
    IF c = "create" THEN EndsWith(file, ".py")
    ELSE EndsWith(file, ".json") \/ EndsWith(file, ".py")

\* lines 150-152, 908-910: LOG.error and return
UnknownFileFormat ==
    /\ apc = "start"
    /\ ~FormatHandled(cmd, accountFile)
    /\ apc' = "done"
    /\ flowResult' = "not_called"
    /\ cmdResult' = "error_logged"
    /\ UNCHANGED <<userAccount, uuidNext, compiled, working, requests, flowArgs, flowReturn,
                   verifyCalls, projectVars, providerSpecVars, configVars, auxVars>>

\* lines 245-250 and 857-861
FlowCompile ==
    /\ apc = "start"
    /\ EndsWith(accountFile, ".py")
    /\ LET r == CompileAccountPayload(userAccount, uuidNext)
       IN  /\ compiled' = r["payload"]
           /\ uuidNext' = r["next"]
           /\ working' = IF Has(r["payload"], "provider") THEN EmptyDict ELSE r["payload"]
           /\ apc' = AfterCompile(cmd, r["payload"])
           /\ flowResult' = IF r["payload"] = NonePayload THEN "error" ELSE flowResult
           /\ flowReturn' = IF r["payload"] = NonePayload THEN NotFoundReturn(accountFile)
                            ELSE flowReturn
    /\ UNCHANGED <<userAccount, requests, flowArgs, verifyCalls, cmdResult,
                   projectVars, providerSpecVars, configVars, auxVars>>

\* the account payloads a .json file can hold
JsonPayloads ==
    { Merge([spec |-> [name |-> "stored", resources |-> [type |-> "aws", data |-> EmptyDict]],
             metadata |-> [kind |-> "account", name |-> "stored", uuid |-> "stored-uuid"]],
            st) : st \in OptField("status", {[resources |-> [state |-> "ACTIVE"]]}) }

\* line 851: json.loads(open(path_to_json).read())
UpdateFromJson ==
    /\ apc = "start"
    /\ cmd = "update"
    /\ EndsWith(accountFile, ".json")
    /\ working' \in JsonPayloads
    /\ apc' = "update_account"
    /\ UNCHANGED <<userAccount, uuidNext, compiled, requests, flowResult, flowArgs,
                   flowReturn, verifyCalls, cmdResult,
                   projectVars, providerSpecVars, configVars, auxVars>>

\* providers.create_provider, resource_types.create_resource_type,
\* providers.update_provider, resource_types.update_resource_types,
\* providers.get_provider: one request on the collaborator's API, after which
\* the collaborator returns or raises
CollaboratorRequest(api, op, payload, name) ==
    [api |-> api, op |-> op, payload |-> payload, name |-> name]

Abort ==
    /\ apc' = "done"
    /\ flowResult' = "raised"

\* lines 219-222
CreateProvider ==
    /\ apc = "create_provider"
    /\ IF compiled["provider"] # EmptyDict
       THEN /\ requests' = Append(requests,
                   CollaboratorRequest("provider", "create", compiled["provider"], nameArg))
            /\ \/ apc' = "create_resource_type" /\ UNCHANGED flowResult
               \/ Abort
       ELSE /\ apc' = "create_resource_type"
            /\ UNCHANGED <<requests, flowResult>>
    /\ UNCHANGED <<userAccount, uuidNext, compiled, working, flowArgs, flowReturn,
                   verifyCalls, cmdResult, projectVars, providerSpecVars, configVars, auxVars>>

\* lines 223-228
CreateResourceType ==
    /\ apc = "create_resource_type"
    /\ IF compiled["resource_type"] # EmptyDict
       THEN /\ requests' = Append(requests,
                   CollaboratorRequest("resource_type", "create",
                                       compiled["resource_type"], nameArg))
            /\ \/ /\ apc' = "account_create"
                  /\ working' = Get(compiled, "account", EmptyDict)
                  /\ UNCHANGED flowResult
               \/ Abort /\ UNCHANGED working
       ELSE /\ apc' = "account_create"
            /\ working' = Get(compiled, "account", EmptyDict)
            /\ UNCHANGED <<requests, flowResult>>
    /\ UNCHANGED <<userAccount, uuidNext, compiled, flowArgs, flowReturn,
                   verifyCalls, cmdResult, projectVars, providerSpecVars, configVars, auxVars>>

\* lines 230-232
Renamed(payload, name) ==
    IF name # ""
    THEN [payload EXCEPT !["spec"]["name"] = name, !["metadata"]["name"] = name]
    ELSE payload

\* lines 230-240
CreateAccountRequest ==
    /\ apc = "account_create"
    /\ working' = Renamed(working, nameArg)
    /\ requests' = Append(requests,
            [api |-> "account", op |-> "create", name |-> working'["spec"]["name"],
             payload |-> working'])
    /\ apc' = "done"
    /\ flowReturn' \in ClientReturns(working'["metadata"]["name"])
    /\ flowResult' = ReturnKind(flowReturn')
    /\ UNCHANGED <<userAccount, uuidNext, compiled, flowArgs, verifyCalls, cmdResult,
                   projectVars, providerSpecVars, configVars, auxVars>>

\* lines 872-873
UpdateLookup ==
    /\ apc = "update_lookup"
    /\ \E outcome \in LookupOutcomes :
          /\ requests' = requests \o GetAccountRequests(nameArg, outcome)
          /\ IF GetAccountRaises(outcome)
             THEN Abort
             ELSE apc' = "update_provider" /\ UNCHANGED flowResult
    /\ UNCHANGED <<userAccount, uuidNext, compiled, working, flowArgs, flowReturn,
                   verifyCalls, cmdResult, projectVars, providerSpecVars, configVars, auxVars>>

\* lines 875-879
UpdateProvider ==
    /\ apc = "update_provider"
    /\ requests' = Append(requests,
            CollaboratorRequest("provider", "update", compiled["provider"], nameArg))
    /\ \/ apc' = "update_resource_type" /\ UNCHANGED flowResult
       \/ Abort
    /\ UNCHANGED <<userAccount, uuidNext, compiled, working, flowArgs, flowReturn,
                   verifyCalls, cmdResult, projectVars, providerSpecVars, configVars, auxVars>>

\* lines 880-885
UpdateResourceTypes ==
    /\ apc = "update_resource_type"
    /\ requests' = Append(requests,
            CollaboratorRequest("resource_type", "update", compiled["resource_type"], nameArg))
    /\ \/ apc' = "get_provider" /\ UNCHANGED flowResult
       \/ Abort
    /\ UNCHANGED <<userAccount, uuidNext, compiled, working, flowArgs, flowReturn,
                   verifyCalls, cmdResult, projectVars, providerSpecVars, configVars, auxVars>>

\* updated_name or name
EffectiveName(name, updated_name) == IF updated_name # "" THEN updated_name ELSE name

\* lines 886-890
GetProvider ==
    /\ apc = "get_provider"
    /\ requests' = Append(requests,
            [api |-> "provider", op |-> "read",
             name |-> EffectiveName(nameArg, updatedNameArg)])
    /\ \/ /\ working' =
               [compiled["account"] EXCEPT
                   !["spec"]["resources"]["data"]["provider_reference"]["uuid"] =
                       RemoteProvider["metadata"]["uuid"]]
          /\ apc' = "update_account"
          /\ UNCHANGED flowResult
       \/ Abort /\ UNCHANGED working
    /\ UNCHANGED <<userAccount, uuidNext, compiled, flowArgs, flowReturn,
                   verifyCalls, cmdResult, projectVars, providerSpecVars, configVars, auxVars>>

\* the compiled metadata kept, with the remote spec_version added
UpdatePayloadKeepsMetadata(payload, name, updated_name, account) ==
    LET account_name == EffectiveName(name, updated_name)
    IN  [spec |-> [name |-> account_name, resources |-> payload["spec"]["resources"]],
         metadata |-> Put(Put(Put(payload["metadata"], "spec_version",
                                  account["metadata"]["spec_version"]),
                              "name", account_name), "kind", "account"),
         api_version |-> "3.0"]

\* lines 811-844: the request body update_account builds
UpdatePayload(payload, name, updated_name, account) ==
    LET account_name == EffectiveName(name, updated_name)
    IN  [spec |-> [name |-> account_name, resources |-> payload["spec"]["resources"]],
         metadata |-> [spec_version |-> account["metadata"]["spec_version"],
                       name |-> account_name, kind |-> "account"],
         api_version |-> "3.0"]

\* lines 852 and 892: the updated_name argument update_account is called with
UpdatedNamePassed(file, updated_name) ==
    IF EndsWith(file, ".json") THEN "" ELSE updated_name

\* lines 809-846
UpdateAccount ==
    /\ apc = "update_account"
    /\ \E outcome \in LookupOutcomes :
          IF GetAccountRaises(outcome)
          THEN /\ requests' = requests \o GetAccountRequests(nameArg, outcome)
               /\ Abort
               /\ UNCHANGED flowReturn
          ELSE LET body == UpdatePayload(working, nameArg,
                                         UpdatedNamePassed(accountFile, updatedNameArg),
                                         RemoteAccount)
               IN  /\ requests' = (requests \o GetAccountRequests(nameArg, outcome))
                        \o <<[api |-> "account", op |-> "update",
                              uuid |-> RemoteAccount["metadata"]["uuid"],
                              payload |-> body]>>
                   /\ apc' = "done"
                   /\ flowReturn' \in ClientReturns(body["metadata"]["name"])
                   /\ flowResult' = ReturnKind(flowReturn')
    /\ UNCHANGED <<userAccount, uuidNext, compiled, working, flowArgs,
                   verifyCalls, cmdResult, projectVars, providerSpecVars, configVars, auxVars>>

\* lines 162-163, 918-919: the state the response reports, DRAFT when it
\* reports none
AccountState(account) ==
    Get(Get(Get(account, "status", EmptyDict), "resources", EmptyDict), "state", "DRAFT")

\* how verify_account can end: the name is in no cache entry, the verify call
\* fails, or the account is verified
VerifyOutcomes == {"unknown_name", "verify_error", "ok"}

\* lines 792-800: the requests verify_account issues
VerifyAccountRequests(account_name, outcome) ==
    <<[api |-> "account", op |-> "get_name_uuid_map", name |-> account_name]>>
    \o (IF outcome # "unknown_name"
        THEN <<[api |-> "account", op |-> "verify",
                uuid |-> RemoteAccount["metadata"]["uuid"]]>>
        ELSE <<>>)

\* lines 795-804: sys.exit(-1) unless the account was verified
VerifyAccountExits(outcome) == outcome # "ok"

\* the verification asked for ahead of the DRAFT test
CreateOutcomeVerifiesDraft(err, state, auto_verify) ==
    IF err # EmptyDict THEN "error_logged"
    ELSE IF auto_verify THEN "verify"
    ELSE IF state = "DRAFT" THEN "exit"
    ELSE "returned"

\* lines 154-199: what create_account_command does with (res, err)
CreateOutcome(err, state, auto_verify) ==
    IF err # EmptyDict THEN "error_logged"
    ELSE IF state = "DRAFT" THEN "exit"
    ELSE IF auto_verify THEN "verify"
    ELSE "returned"

\* lines 154-199; an exception of the flow leaves the command at once
CreateCommandFinish ==
    /\ apc = "done"
    /\ cmd = "create"
    /\ cmdResult = "running"
    /\ IF flowResult = "raised"
       THEN /\ cmdResult' = "raised"
            /\ UNCHANGED <<requests, verifyCalls>>
       ELSE LET outcome == CreateOutcome(flowReturn["err"], AccountState(flowReturn["res"]),
                                         autoVerify)
            IN  IF outcome = "verify"
                THEN LET account_name == flowReturn["res"]["metadata"]["name"]
                     IN  \E v \in VerifyOutcomes :
                            /\ verifyCalls' = Append(verifyCalls, account_name)
                            /\ requests' = requests \o VerifyAccountRequests(account_name, v)
                            /\ cmdResult' = IF VerifyAccountExits(v) THEN "exit"
                                            ELSE "returned"
                ELSE /\ cmdResult' = outcome
                     /\ UNCHANGED <<requests, verifyCalls>>
    /\ UNCHANGED <<userAccount, uuidNext, compiled, apc, working, flowResult, flowArgs,
                   flowReturn, projectVars, providerSpecVars, configVars, auxVars>>

\* lines 912-947: what update_account_command does with (res, err)
UpdateOutcome(err, state) ==
    IF err # EmptyDict THEN "error_logged"
    ELSE IF state # "ACTIVE" THEN "exit"
    ELSE "returned"

\* lines 912-947
UpdateCommandFinish ==
    /\ apc = "done"
    /\ cmd = "update"
    /\ cmdResult = "running"
    /\ cmdResult' = IF flowResult = "raised" THEN "raised"
                    ELSE UpdateOutcome(flowReturn["err"], AccountState(flowReturn["res"]))
    /\ UNCHANGED <<userAccount, uuidNext, compiled, apc, working, requests, flowResult,
                   flowArgs, flowReturn, verifyCalls,
                   projectVars, providerSpecVars, configVars, auxVars>>

InitFlow ==
    /\ ConfigIdle
    /\ DrawAccount(MaxFlowAuth, 0)
    /\ uuidNext = 1
    /\ compiled = NonePayload
    /\ apc = "start"
    /\ working = EmptyDict
    /\ requests = <<>>
    /\ flowResult = "running"
    /\ flowReturn = NoReturn
    /\ verifyCalls = <<>>
    /\ cmdResult = "running"
    /\ \/ /\ cmd = "create" /\ nameArg \in {"", "acct1"} /\ updatedNameArg = ""
          /\ accountFile \in {f \in AccountFiles : f["suffix"] # ".json"}
          /\ autoVerify \in BOOLEAN
       \/ /\ cmd = "update" /\ nameArg = "acct1" /\ updatedNameArg \in {"", "renamed"}
          /\ accountFile \in AccountFiles
          /\ autoVerify = FALSE
    /\ ProjectIdle
    /\ ProviderSpecIdle
    /\ AuxIdle

NextFlow ==
    \/ UnknownFileFormat
    \/ FlowCompile
    \/ UpdateFromJson
    \/ CreateProvider
    \/ CreateResourceType
    \/ CreateAccountRequest
    \/ UpdateLookup
    \/ UpdateProvider
    \/ UpdateResourceTypes
    \/ GetProvider
    \/ UpdateAccount
    \/ CreateCommandFinish
    \/ UpdateCommandFinish

SpecFlow == InitFlow /\ [][NextFlow]_vars

--------------------------------------------------------------------------
(* Configuration context: InitConfig, ConfigFileParser, ConfigHandle,
   get_config_handle and set_dsl_config (config/config.py) *)

\* line 14: InitConfig._INIT_FILE_LOCATION
INIT_FILE == "~/.calm/init.ini"

ConfigPaths == {"a.ini", "b.ini"}
Hosts == {"10.0.0.1", "10.0.0.2"}
ProjectNames == {"default", "dev"}

MaxConfigCalls == 3

\* _CONFIG_HANDLE = None
NoHandle == EmptyDict

\* init.ini.jinja2 rendered: the items of the init file, one per line
RenderInitTemplate(config_file, db_file, local_dir) ==
    << <<"CONFIG", "location", config_file>>,
       <<"DB", "location", db_file>>,
       <<"LOCAL_DIR", "location", local_dir>> >>

\* config.ini.jinja2 rendered: the items of the config file, one per line
RenderConfigTemplate(ip, port, username, password, project_name, log_level) ==
    << <<"SERVER", "pc_ip", ip>>,
       <<"SERVER", "pc_port", port>>,
       <<"SERVER", "pc_username", username>>,
       <<"SERVER", "pc_password", password>>,
       <<"PROJECT", "name", project_name>>,
       <<"LOG", "level", log_level>> >>

\* lines 84-88: config_obj[section][k] = v for every item read
RECURSIVE ParseItems(_, _)
ParseItems(items, config_obj) ==
    IF items = <<>> THEN config_obj
    ELSE LET section == Head(items)[1]
             k == Head(items)[2]
             v == Head(items)[3]
         IN  ParseItems(Tail(items),
                        Put(config_obj, section,
                            Put(Get(config_obj, section, EmptyDict), k, v)))

\* lines 75-90: ConfigFileParser.__init__; a path that does not exist reads
\* as a file with no section
ConfigFileParser(fs, config_file) == ParseItems(Get(fs, config_file, <<>>), EmptyDict)

\* lines 92-126: get_server_config, get_project_config, get_log_config,
\* get_categories_config
SectionOf(config_obj, section) == Get(config_obj, section, EmptyDict)

\* lines 17-37: get_init_data raises FileNotFoundError without the init file
InitDataMissing(fs) == ~Has(fs, INIT_FILE)

\* lines 132-134: the file a handle is built from
ConfigLocation(fs, config_file) ==
    IF config_file = ""
    THEN ConfigFileParser(fs, INIT_FILE)["CONFIG"]["location"]
    ELSE config_file

\* lines 129-141: ConfigHandle.__init__; id stands for the object's identity
ConfigHandle(fs, config_file, id) ==
    LET config_obj == ConfigFileParser(fs, ConfigLocation(fs, config_file))
    IN  [id |-> id,
         server_config |-> SectionOf(config_obj, "SERVER"),
         project_config |-> SectionOf(config_obj, "PROJECT"),
         log_config |-> SectionOf(config_obj, "LOG"),
         categories_config |-> SectionOf(config_obj, "CATEGORIES")]

\* a handle is constructed only while none is installed
NeedsHandleOnlyWhenNone(handle, config_file) == handle = NoHandle

\* line 218: not _CONFIG_HANDLE or config_file
NeedsHandle(handle, config_file) == handle = NoHandle \/ config_file # ""

\* lines 214-221
GetConfigHandle ==
    /\ Len(cfgLog) < MaxConfigCalls
    /\ \E config_file \in {""} \cup ConfigPaths :
          LET creates == NeedsHandle(CONFIG_HANDLE, config_file)
              raises == creates /\ config_file = "" /\ InitDataMissing(files)
              after == IF creates /\ ~raises
                       THEN ConfigHandle(files, config_file, handleCount + 1)
                       ELSE CONFIG_HANDLE
          IN  /\ CONFIG_HANDLE' = after
              /\ handleCount' = IF creates /\ ~raises THEN handleCount + 1
                                ELSE handleCount
              /\ cfgLog' = Append(cfgLog,
                     [op |-> "get", config_file |-> config_file, files |-> files,
                      before |-> CONFIG_HANDLE, after |-> after, raised |-> raises,
                      returned |-> IF raises THEN NoHandle ELSE after])
    /\ UNCHANGED <<files, projectVars, providerSpecVars, accountVars, flowVars, auxVars>>

\* lines 40-58: update_init_config
UpdateInitConfig(fs, config_file, db_file, local_dir) ==
    Put(fs, INIT_FILE, RenderInitTemplate(config_file, db_file, local_dir))

\* lines 195-208: update_config_file
UpdateConfigFile(fs, config_file, host, port, username, password, project, level) ==
    Put(fs, config_file,
        RenderConfigTemplate(host, port, username, password, project, level))

\* the context rebuilt from the file just written
HandleAfterSetRefreshed(handle, fs, config_file, n) == ConfigHandle(fs, config_file, n + 1)

\* lines 245-257: no statement of set_dsl_config assigns _CONFIG_HANDLE
HandleAfterSet(handle, fs, config_file, n) == handle

\* lines 224-257
SetDslConfig ==
    /\ Len(cfgLog) < MaxConfigCalls
    /\ \E config_file \in ConfigPaths, host \in Hosts, project_name \in ProjectNames :
          LET fs1 == UpdateInitConfig(files, config_file, "dsl.db", ".local")
              fs2 == UpdateConfigFile(fs1, config_file, host, "9440", "admin", "secret",
                                      project_name, "INFO")
              after == HandleAfterSet(CONFIG_HANDLE, fs2, config_file, handleCount)
          IN  /\ files' = fs2
              /\ CONFIG_HANDLE' = after
              /\ cfgLog' = Append(cfgLog,
                     [op |-> "set", config_file |-> config_file, host |-> host,
                      project_name |-> project_name, files |-> fs2,
                      writes |-> <<INIT_FILE, config_file>>,
                      before |-> CONFIG_HANDLE, after |-> after])
    /\ UNCHANGED <<handleCount, projectVars, providerSpecVars, accountVars, flowVars, auxVars>>

\* the configuration `calm init dsl` left behind, or none yet
InitialFiles ==
    { [f \in ConfigPaths |->
          RenderConfigTemplate("10.0.0.0", "9440", "admin", "secret", "default", "INFO")],
      UpdateInitConfig(
          [f \in ConfigPaths |->
              RenderConfigTemplate("10.0.0.0", "9440", "admin", "secret", "default", "INFO")],
          "a.ini", "dsl.db", ".local") }

InitConfig ==
    /\ files \in InitialFiles
    /\ CONFIG_HANDLE = NoHandle
    /\ handleCount = 0
    /\ cfgLog = <<>>
    /\ ProjectIdle
    /\ ProviderSpecIdle
    /\ AccountIdle
    /\ AuxIdle

NextConfig ==
    \/ GetConfigHandle
    \/ SetDslConfig

SpecConfig == InitConfig /\ [][NextConfig]_vars

--------------------------------------------------------------------------
(* cli/accounts.py: delete_account *)

\* how many names one delete command is given at most
MaxDeleteNames == 3

\* the account names a delete command can be given
DeleteNames == {"aws_acc", "ndb_acc"}

\* line 142 and 452: the identifier the server holds for an account name
RemoteAccountId(account_name) == "remote-" \o account_name

\* lines 130-156: the requests get_account issues for one of the names
LookupRequests(account_name, outcome) ==
    <<[api |-> "account", op |-> "list", name |-> account_name]>>
    \o (IF outcome \in {"read_error", "ok"}
        THEN <<[api |-> "account", op |-> "read", uuid |-> RemoteAccountId(account_name)]>>
        ELSE <<>>)

\* lines 451-453: the delete request for the account that was read
DeleteRequest(account_name) ==
    [api |-> "account", op |-> "delete", uuid |-> RemoteAccountId(account_name)]

\* the err test left out: a failed delete is passed over
DeleteErrorIgnored(err) == FALSE

\* lines 454-455: if err: raise
DeleteRaises(err) == err

\* lines 461-465: the cache_type argument of Cache.sync_table
AccountCaches == <<"ACCOUNT", "AHV_DISK_IMAGE", "AHV_SUBNET">>

\* lines 450-456: one turn of the loop, for the next name
DeleteNextAccount ==
    /\ delResult = "running"
    /\ Len(delDone) < Len(delNames)
    /\ LET account_name == delNames[Len(delDone) + 1]
       IN  \E outcome \in LookupOutcomes :
               IF GetAccountRaises(outcome)
               THEN /\ delRequests' = delRequests \o LookupRequests(account_name, outcome)
                    /\ delDone' = Append(delDone, outcome)
                    /\ delResult' = "raised"
               ELSE \E err \in BOOLEAN :
                        /\ delRequests' = delRequests \o LookupRequests(account_name, outcome)
                                              \o <<DeleteRequest(account_name)>>
                        /\ delDone' = Append(delDone, IF err THEN "delete_error" ELSE "deleted")
                        /\ delResult' = IF DeleteRaises(err) THEN "raised" ELSE "running"
    /\ UNCHANGED <<delNames, delSynced, projectVars, providerSpecVars, accountVars,
                   flowVars, configVars, recompileVars>>

\* lines 458-467: the loop is over; the caches are synced and the call returns
SyncAccountCaches ==
    /\ delResult = "running"
    /\ Len(delDone) = Len(delNames)
    /\ delSynced' = Append(delSynced, AccountCaches)
    /\ delResult' = "returned"
    /\ UNCHANGED <<delNames, delDone, delRequests, projectVars, providerSpecVars,
                   accountVars, flowVars, configVars, recompileVars>>

InitDelete ==
    /\ delNames \in SeqsUpTo(DeleteNames, MaxDeleteNames)
    /\ delDone = <<>>
    /\ delRequests = <<>>
    /\ delSynced = <<>>
    /\ delResult = "running"
    /\ ProjectIdle
    /\ ProviderSpecIdle
    /\ AccountIdle
    /\ ConfigIdle
    /\ RecompileIdle

NextDelete ==
    \/ DeleteNextAccount
    \/ SyncAccountCaches

SpecDelete == InitDelete /\ [][NextDelete]_vars

--------------------------------------------------------------------------
(* A definition compiled more than once in one process: the Project hook on
   objects with identity, the account builders on one uuid generator *)

\* how often the same definition is compiled
MaxCompiles == 2

\* providers of a project that is compiled again
MaxSharedProviders == 2

\* auth-schema entries, variables and credential attributes of an account
\* that is compiled again
MaxRecompileVars == 1

SharedProviderObjs ==
    { Merge(Merge(Merge(b, s), e), d) :
        b \in [provider_type : ProviderTypes, account_reference : {"acc1"}],
        s \in OptField("subnet_reference_list", SubnetLists),
        e \in OptField("external_network_list", ExternalLists),
        d \in OptField("default_subnet_reference", {"A"}) }

\* lines 26-39: the fields of a provider the hook reads by reference
NetworkKeys == {"subnet_reference_list", "external_network_list", "default_subnet_reference"}

\* the keys of the mapping whose values are kept as objects
HeapKeys == NetworkKeys \cup {"account_reference_list"}

ProviderId(i, k) == "provider" \o ToString(i) \o "." \o k

DeclaredId(k) == "declared." \o k

QuotasId == "declared.quotas"

\* the provider fields a declaration holds, as <<position, key>>
ProviderFields(d) ==
    LET pl == Get(d, "provider_list", <<>>)
    IN  {y \in (1..Len(pl)) \X NetworkKeys : Has(pl[y[1]], y[2])}

\* the objects of the declaration the claim names: every provider's network
\* fields and the quota map
ProviderAndQuotaIds(d) ==
    {ProviderId(y[1], y[2]) : y \in ProviderFields(d)}
    \cup (IF Has(d, "quotas") THEN {QuotasId} ELSE {})

\* the objects a declaration consists of, with the values it declares
DeclaredHeap(d) ==
    LET pl == Get(d, "provider_list", <<>>)
        own == NetworkKeys \cap DOMAIN d
        ids == ProviderAndQuotaIds(d) \cup {DeclaredId(k) : k \in own}
    IN  [id \in ids |->
            IF id = QuotasId THEN d["quotas"]
            ELSE IF \E k \in own : id = DeclaredId(k)
            THEN d[CHOOSE k \in own : id = DeclaredId(k)]
            ELSE LET y == CHOOSE y \in ProviderFields(d) : ProviderId(y[1], y[2]) = id
                 IN  pl[y[1]][y[2]]]

\* line 17, super().compile(): a new mapping for this call; the project's own
\* lists are the call's own objects, the provider sub-entities and the quota
\* map are the declared objects themselves
SuperCompile(d, h, call) ==
    LET own == NetworkKeys \cap DOMAIN d
        OwnId(k) == "own" \o ToString(call) \o "." \o k
        pl == Get(d, "provider_list", <<>>)
        Refs(i) == [k \in DOMAIN pl[i] |->
                       IF k \in NetworkKeys THEN ProviderId(i, k) ELSE pl[i][k]]
        c == [k \in DOMAIN d |->
                 IF k \in own THEN OwnId(k)
                 ELSE IF k = "provider_list" THEN [i \in 1..Len(pl) |-> Refs(i)]
                 ELSE IF k = "quotas" THEN QuotasId
                 ELSE d[k]]
        copies == [id \in {OwnId(k) : k \in own} |->
                      h[DeclaredId(CHOOSE k \in own : OwnId(k) = id)]]
    IN  [c |-> c, h |-> Merge(h, copies)]

\* the mapping's missing list bound to the provider's list instead of a new one
HeapExtendAliased(st, k, src, call) ==
    IF ~Has(st["c"], k)
    THEN [c |-> Put(st["c"], k, src), h |-> st["h"]]
    ELSE LET tgt == st["c"][k]
         IN  [c |-> st["c"], h |-> Put(st["h"], tgt, st["h"][tgt] \o st["h"][src])]

\* lines 27-29 and 32-34: a new list when the mapping has none, then
\* list.extend, which changes the mapping's list object in place
HeapExtend(st, k, src, call) ==
    LET fresh == "new" \o ToString(call) \o "." \o k
        st1 == IF ~Has(st["c"], k)
               THEN [c |-> Put(st["c"], k, fresh), h |-> Put(st["h"], fresh, <<>>)]
               ELSE st
        tgt == st1["c"][k]
    IN  [c |-> st1["c"], h |-> Put(st1["h"], tgt, st1["h"][tgt] \o st1["h"][src])]

\* lines 26-39 on objects
HeapNutanixNetworks(st, p, call) ==
    LET st1 == IF Has(p, "subnet_reference_list")
               THEN HeapExtend(st, "subnet_reference_list", p["subnet_reference_list"], call)
               ELSE IF Has(p, "external_network_list")
               THEN HeapExtend(st, "external_network_list", p["external_network_list"], call)
               ELSE st
    IN  IF Has(p, "default_subnet_reference")
        THEN [c |-> Put(st1["c"], "default_subnet_reference", p["default_subnet_reference"]),
              h |-> st1["h"]]
        ELSE st1

\* lines 24-41 on objects
HeapPopulateProvider(st, p, call) ==
    LET st1 == IF p["provider_type"] = "nutanix_pc" THEN HeapNutanixNetworks(st, p, call) ELSE st
        arl == st1["c"]["account_reference_list"]
    IN  [c |-> st1["c"],
         h |-> Put(st1["h"], arl, Append(st1["h"][arl], p["account_reference"]))]

RECURSIVE HeapPopulateAccounts(_, _, _)
HeapPopulateAccounts(st, ps, call) ==
    IF ps = <<>> THEN st
    ELSE HeapPopulateAccounts(HeapPopulateProvider(st, Head(ps), call), Tail(ps), call)

\* lines 43-52 on objects: the quota map is read, the limits are new values
HeapConvertQuotas(st) ==
    LET quotas == IF Has(st["c"], "quotas") THEN st["h"][st["c"]["quotas"]] ELSE <<>>
        c1 == Pop(st["c"], "quotas")
    IN  IF quotas # <<>>
        THEN [c |-> Put(c1, "resource_domain",
                        [resources |-> [i \in 1..Len(quotas) |->
                                           QuotaResource(quotas[i][1], quotas[i][2])]]),
              h |-> st["h"]]
        ELSE [c |-> c1, h |-> st["h"]]

\* lines 16-57 on objects; g is what super().compile() returned
HeapProjectCompile(g, call) ==
    LET arl == "new" \o ToString(call) \o ".account_reference_list"
        st0 == [c |-> Put(g["c"], "account_reference_list", arl), h |-> Put(g["h"], arl, <<>>)]
        provider_list == Get(st0["c"], "provider_list", <<>>)
        st1 == HeapPopulateAccounts([c |-> Pop(st0["c"], "provider_list"), h |-> st0["h"]],
                                    provider_list, call)
        st2 == HeapConvertQuotas(st1)
    IN  [c |-> Pop(st2["c"], "environment_definition_list"), h |-> st2["h"]]

\* the returned mapping with every object replaced by its current value
Deref(c, h) == [k \in DOMAIN c |-> IF k \in HeapKeys THEN h[c[k]] ELSE c[k]]

\* one more compile of the project
RecompileProject ==
    /\ recKind = "project"
    /\ Len(runs) < MaxCompiles
    /\ LET call == Len(runs) + 1
           r == HeapProjectCompile(SuperCompile(pdecl, heap, call), call)
       IN  /\ heap' = r["h"]
           /\ runs' = Append(runs, [payload |-> Deref(r["c"], r["h"]), refs |-> r["c"],
                                    first |-> uuidNext])
    /\ UNCHANGED <<recKind, projectVars, accountVars, flowVars, providerSpecVars, configVars,
                   deleteVars>>

\* one more compile of the account; the generator goes on where it stopped
RecompileAccount ==
    /\ recKind = "account"
    /\ Len(runs) < MaxCompiles
    /\ LET r == CompileAccountPayload(userAccount, uuidNext)
       IN  /\ runs' = Append(runs, [payload |-> r["payload"], first |-> uuidNext])
           /\ uuidNext' = r["next"]
    /\ UNCHANGED <<recKind, heap, userAccount, compiled, apc, projectVars, flowVars,
                   providerSpecVars, configVars, deleteVars>>

InitRecompile ==
    /\ \/ /\ recKind = "project"
          /\ \E own \in OwnFields :
             \E pl \in OptField("provider_list", SeqsUpTo(SharedProviderObjs, MaxSharedProviders)) :
             \E q \in OptField("quotas", {<< <<"STORAGE", 5>>, <<"VCPUS", 2>> >>}) :
                 pdecl = DeclOf(own, pl, q, EmptyDict)
          /\ heap = DeclaredHeap(pdecl)
          /\ userAccount = NoAccount
       \/ /\ recKind = "account"
          /\ DrawAccount(MaxRecompileVars, MaxRecompileVars)
          /\ pdecl = EmptyDict
          /\ heap = EmptyDict
    /\ runs = <<>>
    /\ cdict = EmptyDict
    /\ ppc = "idle"
    /\ uuidNext = 1
    /\ compiled = EmptyDict
    /\ apc = "idle"
    /\ FlowIdle
    /\ ProviderSpecIdle
    /\ ConfigIdle
    /\ DeleteIdle

NextRecompile ==
    \/ RecompileProject
    \/ RecompileAccount

SpecRecompile == InitRecompile /\ [][NextRecompile]_vars

--------------------------------------------------------------------------
(* Properties of the Project compile hook *)

\* long division of a big number by a machine-size d, most significant limb
\* first; the result is <<quotient limbs, remainder>>
RECURSIVE DivLimbs(_, _, _)
DivLimbs(b, d, rem) ==
    IF b = <<>>
    THEN <<(<<>>), rem>>
    ELSE LET t == rem * 10000 + b[Len(b)]
             rest == DivLimbs(SubSeq(b, 1, Len(b) - 1), d, t % d)
         IN  <<Append(rest[1], t \div d), rest[2]>>

BigDiv(b, d) == LET r == DivLimbs(b, d, 0) IN <<Strip(r[1]), r[2]>>

\* big = n * 2^30, decided by three exact divisions by 2^10
IsGibibytes(big, n) ==
    LET d1 == BigDiv(big, 1024)
        d2 == BigDiv(d1[1], 1024)
        d3 == BigDiv(d2[1], 1024)
    IN  d1[2] = 0 /\ d2[2] = 0 /\ d3[2] = 0 /\ d3[1] = <<n>>

DeclaredQuotas == Get(pdecl, "quotas", <<>>)

\* C1: for a non-empty quota map the compiled resource_domain.resources has
\* exactly one entry per quota key; the entry of a key other than "VCPUS" has
\* limit = declared value * 1073741824, the entry of "VCPUS" has the declared
\* value unchanged.
C1_QuotaConversion ==
    (ppc = "compiled" /\ DeclaredQuotas # <<>>) =>
        /\ Has(cdict, "resource_domain")
        /\ LET res == cdict["resource_domain"]["resources"]
           IN  /\ Len(res) = Len(DeclaredQuotas)
               /\ \A i \in 1..Len(DeclaredQuotas) :
                    LET qk == DeclaredQuotas[i][1]
                        qv == DeclaredQuotas[i][2]
                        hits == {j \in 1..Len(res) : res[j]["resource_type"] = qk}
                    IN  /\ Cardinality(hits) = 1
                        /\ \A j \in hits :
                             IF qk = "VCPUS"
                             THEN res[j]["limit"] = <<qv>>
                             ELSE IsGibibytes(res[j]["limit"], qv)

\* C1 witness: {"STORAGE": 5, "VCPUS": 2} compiled to 5368709120 and 2
C1_Witness ==
    /\ ppc = "compiled"
    /\ DeclaredQuotas = << <<"STORAGE", 5>>, <<"VCPUS", 2>> >>
    /\ cdict["resource_domain"]["resources"] =
         << [limit |-> <<9120, 6870, 53>>, resource_type |-> "STORAGE"],
            [limit |-> <<2>>, resource_type |-> "VCPUS"] >>

DeclaredProviders == Get(pdecl, "provider_list", <<>>)

\* the concatenation, in declaration order, of field k of every nutanix_pc
\* provider that declares it
RECURSIVE PlatformLists(_, _)
PlatformLists(ps, k) ==
    IF ps = <<>> THEN <<>>
    ELSE (IF Head(ps)["provider_type"] = "nutanix_pc" /\ Has(Head(ps), k)
          THEN Head(ps)[k] ELSE <<>>) \o PlatformLists(Tail(ps), k)

Flattened(k) ==
    Get(cdict, k, <<>>) = Get(pdecl, k, <<>>) \o PlatformLists(DeclaredProviders, k)

\* C10: every nutanix_pc provider's declared subnet_reference_list is
\* appended, in order, to the top-level subnet_reference_list and its declared
\* external_network_list to the top-level external_network_list, for each
\* list the provider declares, a provider that declares both included.
C10_NetworkFlattening ==
    ppc = "compiled" =>
        /\ Flattened("subnet_reference_list")
        /\ Flattened("external_network_list")

\* C11: the compiled project always has account_reference_list, holding
\* exactly the account_reference of every declared provider, one entry per
\* provider in declaration order, whatever the provider's type; with no
\* providers the list is present and empty.
C11_AccountReferenceList ==
    ppc = "compiled" =>
        /\ Has(cdict, "account_reference_list")
        /\ LET refs == cdict["account_reference_list"]
               ps == DeclaredProviders
           IN  /\ Len(refs) = Len(ps)
               /\ \A i \in 1..Len(ps) : refs[i] = ps[i]["account_reference"]

\* C11 witness: an aws provider on acc2 followed by a nutanix_pc provider on
\* acc1 compiled to [acc2, acc1]
C11_Witness ==
    /\ ppc = "compiled"
    /\ Len(DeclaredProviders) = 2
    /\ DeclaredProviders[1]["provider_type"] = "aws"
    /\ DeclaredProviders[1]["account_reference"] = "acc2"
    /\ DeclaredProviders[2]["provider_type"] = "nutanix_pc"
    /\ DeclaredProviders[2]["account_reference"] = "acc1"
    /\ cdict["account_reference_list"] = <<"acc2", "acc1">>

TransientKeys == {"provider_list", "quotas", "environment_definition_list"}

\* C12: the compiled project never contains provider_list, quotas or
\* environment_definition_list, whatever the declaration contained, an empty
\* or an absent quota map included.
C12_TransientKeysRemoved ==
    ppc = "compiled" => DOMAIN cdict \cap TransientKeys = {}

\* C12 witness: a declaration carrying all three keys, the quota map empty,
\* compiled without them and without a resource_domain
C12_Witness ==
    /\ ppc = "compiled"
    /\ TransientKeys \subseteq DOMAIN pdecl
    /\ pdecl["quotas"] = <<>>
    /\ pdecl["provider_list"] # <<>>
    /\ DOMAIN cdict \cap TransientKeys = {}
    /\ ~Has(cdict, "resource_domain")

\* the positions of the nutanix_pc providers that declare a default subnet
DefaultDeclarers ==
    { i \in 1..Len(DeclaredProviders) :
        /\ DeclaredProviders[i]["provider_type"] = "nutanix_pc"
        /\ Has(DeclaredProviders[i], "default_subnet_reference") }

\* C20: after compile, when some nutanix_pc provider declares
\* default_subnet_reference the project's default_subnet_reference is the one
\* declared by the last such provider in declaration order; providers of any
\* other type never change it, and when no nutanix_pc provider declares one
\* the project's own value (or its absence) is left as compiled.
C20_DefaultSubnet ==
    ppc = "compiled" =>
        LET ds == DefaultDeclarers
        IN  IF ds # {}
            THEN LET last == CHOOSE i \in ds : \A j \in ds : j <= i
                 IN  /\ Has(cdict, "default_subnet_reference")
                     /\ cdict["default_subnet_reference"] =
                          DeclaredProviders[last]["default_subnet_reference"]
            ELSE /\ Has(cdict, "default_subnet_reference")
                      = Has(pdecl, "default_subnet_reference")
                 /\ Get(cdict, "default_subnet_reference", "")
                      = Get(pdecl, "default_subnet_reference", "")

\* C20 witness: two nutanix_pc providers declaring A then B, followed by
\* nothing else: the project's default is B, not its own D0 and not A
C20_Witness ==
    /\ ppc = "compiled"
    /\ Get(pdecl, "default_subnet_reference", "") = "D0"
    /\ Len(DeclaredProviders) = 2
    /\ DefaultDeclarers = {1, 2}
    /\ DeclaredProviders[1]["default_subnet_reference"] = "A"
    /\ DeclaredProviders[2]["default_subnet_reference"] = "B"
    /\ cdict["default_subnet_reference"] = "B"

\* an aws provider that declares a default subnet leaves the project's own
C20_OtherTypeIgnored ==
    /\ ppc = "compiled"
    /\ Len(DeclaredProviders) = 1
    /\ DeclaredProviders[1]["provider_type"] = "aws"
    /\ Has(DeclaredProviders[1], "default_subnet_reference")
    /\ Get(cdict, "default_subnet_reference", "") = "D0"

--------------------------------------------------------------------------
(* Properties of the provider-spec descriptor *)

\* the provider type the table gives each spec kind, written out
ExpectedProvider(kind) ==
    CASE kind = "PROVISION_AHV_VM" -> "AHV_VM"
      [] kind = "PROVISION_VMWARE_VM" -> "VMWARE_VM"
      [] kind = "PROVISION_GCP_VM" -> "GCP_VM"
      [] kind = "PROVISION_EXISTING_MACHINE" -> "EXISTING_VM"
      [] kind = "PROVISION_AWS_VM" -> "AWS_VM"
      [] kind = "PROVISION_AZURE_VM" -> "AZURE_VM"
      [] OTHER -> "unmapped"

PsAccessed == psResult["status"] \notin {"idle", "pending"}

\* C5: for every spec kind of the table and every provider type, the access
\* passes the agreement check (and returns the spec once the provider's own
\* validator accepts it) exactly when the kind's table entry equals the
\* substrate's provider_type, and otherwise fails with the mismatch TypeError;
\* PROVISION_AHV_VM succeeds on AHV_VM and fails on AWS_VM.
C5_ProviderTypeAgreement ==
    (PsAccessed /\ Has(psSpec, "type") /\ ExpectedProvider(psSpec["type"]) # "unmapped") =>
        LET agree == ExpectedProvider(psSpec["type"]) = psProviderType
        IN  /\ (psResult["status"] = "TypeError") <=> ~agree
            /\ (psResult["status"] = "ok") <=> (agree /\ psValidatorOk)
            /\ (psSpec["type"] = "PROVISION_AHV_VM" /\ psProviderType = "AHV_VM"
                  /\ psValidatorOk) => psResult["status"] = "ok"
            /\ (psSpec["type"] = "PROVISION_AHV_VM" /\ psProviderType = "AWS_VM")
                  => psResult["status"] = "TypeError"

\* C5 witness: a PROVISION_AWS_VM spec accepted on an AWS_VM substrate
C5_Witness ==
    /\ Has(psSpec, "type") /\ psSpec["type"] = "PROVISION_AWS_VM"
    /\ psProviderType = "AWS_VM"
    /\ psResult["status"] = "ok"
    /\ psResult["spec"] = psSpec

\* C13: every failure of the access that is not raised by the delegated
\* validator is the provider-type-mismatch error; a spec whose declared kind
\* is not a key of the mapping table fails with the mismatch error and with
\* no other kind of error.
C13_ClosedErrorTaxonomy ==
    PsAccessed =>
        /\ psResult["status"] \in {"ok", "validator_error", "TypeError"}
        /\ DeclaredKind(psSpec) \notin DOMAIN spec_provider_map
             => psResult["status"] = "TypeError"

\* the access of a spec of a kind outside the table ended in the KeyError of
\* the table lookup
C13_UnknownKindRaisesKeyError ==
    /\ PsAccessed
    /\ Has(psSpec, "type") /\ psSpec["type"] = "PROVISION_K8S_POD"
    /\ psResult["status"] = "KeyError"

\* C14: Provider.validate_spec is invoked only after the agreement check has
\* passed, once, and for the substrate's provider type; on a mismatch the
\* validator is never invoked and no spec is returned.
C14_ValidatorAfterAgreement ==
    PsAccessed =>
        /\ psCalls # <<>> =>
              /\ psCalls = <<psProviderType>>
              /\ ExpectedProvider(DeclaredKind(psSpec)) = psProviderType
              /\ psResult["status"] \in {"ok", "validator_error"}
        /\ psResult["status"] \in {"ok", "validator_error"} => psCalls = <<psProviderType>>
        /\ psResult["status"] = "TypeError" =>
              /\ psCalls = <<>>
              /\ ~Has(psResult, "spec")

\* C14 witness: a GCP spec on a VMware substrate, refused before the
\* validator (which would have accepted) was asked
C14_Witness ==
    /\ Has(psSpec, "type") /\ psSpec["type"] = "PROVISION_GCP_VM"
    /\ psProviderType = "VMWARE_VM"
    /\ psValidatorOk
    /\ psResult["status"] = "TypeError"
    /\ psCalls = <<>>

\* the validator asked once, for the substrate's type, after agreement
C14_ValidatorInvoked ==
    /\ Has(psSpec, "type") /\ psSpec["type"] = "PROVISION_GCP_VM"
    /\ psProviderType = "GCP_VM"
    /\ ~psValidatorOk
    /\ psResult["status"] = "validator_error"
    /\ psCalls = <<"GCP_VM">>

\* C25: a spec that declares no "type" is treated as PROVISION_AHV_VM: the
\* access passes the agreement check on an AHV_VM substrate (and returns the
\* spec once the provider's own validator accepts it) and fails with the
\* mismatch error on a substrate of any other provider type; the value
\* returned is the spec body that was supplied, unchanged.
C25_UntypedSpecIsAhv ==
    (PsAccessed /\ ~Has(psSpec, "type")) =>
        IF psProviderType = "AHV_VM"
        THEN /\ psResult["status"] = (IF psValidatorOk THEN "ok" ELSE "validator_error")
             /\ psCalls = <<"AHV_VM">>
             /\ psResult["status"] = "ok" =>
                   /\ psResult["spec"] = psSpec
                   /\ ~Has(psResult["spec"], "type")
        ELSE /\ psResult["status"] = "TypeError"
             /\ psResult["spec_type"] = "AHV_VM"
             /\ psResult["substrate"] = psProviderType

\* C25 witness: an untyped spec returned as supplied on an AHV_VM substrate
C25_Witness ==
    /\ psSpec = [name |-> "vm1"]
    /\ psProviderType = "AHV_VM"
    /\ psResult = [status |-> "ok", spec |-> [name |-> "vm1"]]

\* an untyped spec refused on a GCP substrate
C25_RefusedElsewhere ==
    /\ psSpec = [name |-> "vm1"]
    /\ psProviderType = "GCP_VM"
    /\ psResult["status"] = "TypeError"

--------------------------------------------------------------------------
(* Properties of the account payload assembly *)

IsBundle == apc = "compiled" /\ Has(compiled, "provider")

ProviderPayload == compiled["provider"]
ResourceTypePayload == compiled["resource_type"]
AccountPayload == compiled["account"]

\* the four lists the assembly stamps, as declared and as compiled
DeclaredLists ==
    << userAccount["auth_schema_list"], userAccount["variables"],
       userAccount["cred_attrs"], userAccount["auth_schema_list"] >>

CompiledLists ==
    << ProviderPayload["spec"]["resources"]["auth_schema_list"],
       ResourceTypePayload["spec"]["resources"]["variable_list"],
       ResourceTypePayload["spec"]["resources"]["schema_list"],
       AccountPayload["spec"]["resources"]["data"]["variable_list"] >>

\* C2: in every bundle the resource-type payload's
\* spec.resources.provider_reference.uuid equals the provider payload's
\* generated metadata.uuid.
C2_ResourceTypeReferencesProvider ==
    IsBundle =>
        /\ ProviderPayload["metadata"]["uuid"] # ""
        /\ ResourceTypePayload["spec"]["resources"]["provider_reference"]["uuid"]
             = ProviderPayload["metadata"]["uuid"]

\* C2 witness: a bundle whose provider identifier is the second generated
\* value (the first went to the discarded single payload), embedded in the
\* resource-type payload
C2_Witness ==
    /\ IsBundle
    /\ ProviderPayload["metadata"]["uuid"] = "uuid4-2"
    /\ ResourceTypePayload["spec"]["resources"]["provider_reference"] =
         [kind |-> "provider", uuid |-> "uuid4-2"]

\* C3 as claimed: the reference embedded in the account payload equals the
\* resource-type payload's own generated identifier (its metadata.uuid).
C3_AccountReferencesResourceType ==
    IsBundle =>
        AccountPayload["spec"]["resources"]["data"]["provider_reference"]["uuid"]
          = ResourceTypePayload["metadata"]["uuid"]

\* C3 amended: the reference embedded in the account payload is the
\* resource-type payload's provider_reference, so its uuid equals the provider
\* payload's generated metadata.uuid (kind "provider").
C3_AccountReferencesProvider ==
    IsBundle =>
        LET ref == AccountPayload["spec"]["resources"]["data"]["provider_reference"]
        IN  /\ ref = ResourceTypePayload["spec"]["resources"]["provider_reference"]
            /\ ref["kind"] = "provider"
            /\ ref["uuid"] = ProviderPayload["metadata"]["uuid"]

\* C3 witness: a bundle whose account reference is the provider's identifier
\* and differs from the resource type's
C3_Witness ==
    /\ IsBundle
    /\ AccountPayload["spec"]["resources"]["data"]["provider_reference"]["uuid"]
         = ProviderPayload["metadata"]["uuid"]
    /\ ResourceTypePayload["metadata"]["uuid"] # ProviderPayload["metadata"]["uuid"]

\* C6: in every payload of a bundle (provider auth_schema_list, resource-type
\* variable_list and schema_list, account variable_list) every entry of type
\* "SECRET" carries attrs = {is_secret_modified: true, type: "SECRET"}, and an
\* entry of any other type is given no attrs.
C6_SecretMarking ==
    IsBundle =>
        \A k \in 1..4 : \A i \in 1..Len(CompiledLists[k]) :
            LET e == CompiledLists[k][i]
            IN  IF e["type"] = "SECRET"
                THEN /\ Has(e, "attrs")
                     /\ DOMAIN e["attrs"] = {"is_secret_modified", "type"}
                     /\ e["attrs"]["is_secret_modified"] = TRUE
                     /\ e["attrs"]["type"] = "SECRET"
                ELSE ~Has(e, "attrs")

\* C6 witness: a bundle with a secret and a plain auth-schema entry, and a
\* secret resource-type variable
C6_Witness ==
    /\ IsBundle
    /\ Len(CompiledLists[1]) = 2
    /\ CompiledLists[1][1]["type"] = "SECRET" /\ Has(CompiledLists[1][1], "attrs")
    /\ CompiledLists[1][2]["type"] = "LOCAL" /\ ~Has(CompiledLists[1][2], "attrs")
    /\ Len(CompiledLists[2]) = 1
    /\ CompiledLists[2][1]["type"] = "SECRET" /\ Has(CompiledLists[2][1], "attrs")
    /\ Len(CompiledLists[4]) = 2
    /\ Has(CompiledLists[4][1], "attrs")

\* every identifier of a bundle: the stamped elements' and the three payloads'
BundleIds ==
    [i \in 1..Len(CompiledLists[1]) |-> CompiledLists[1][i]["uuid"]]
    \o [i \in 1..Len(CompiledLists[2]) |-> CompiledLists[2][i]["uuid"]]
    \o [i \in 1..Len(CompiledLists[3]) |-> CompiledLists[3][i]["uuid"]]
    \o [i \in 1..Len(CompiledLists[4]) |-> CompiledLists[4][i]["uuid"]]
    \o << ProviderPayload["metadata"]["uuid"], ResourceTypePayload["metadata"]["uuid"],
          AccountPayload["metadata"]["uuid"] >>

\* C7: every stamped list has the length and the element order of the
\* declared list, every element has a non-empty uuid, and no two stamped
\* elements and no two payload metadata uuids of the bundle share one.
C7_StampingPreservesAndIsUnique ==
    IsBundle =>
        /\ \A k \in 1..4 :
             LET out == CompiledLists[k]
                 decl == DeclaredLists[k]
             IN  /\ Len(out) = Len(decl)
                 /\ \A i \in 1..Len(out) :
                      /\ out[i]["name"] = decl[i]["name"]
                      /\ out[i]["type"] = decl[i]["type"]
                      /\ Has(out[i], "uuid")
                      /\ out[i]["uuid"] # ""
        /\ LET ids == BundleIds
           IN  Cardinality({ids[i] : i \in 1..Len(ids)}) = Len(ids)

\* C7 witness: two auth-schema entries in declared order with distinct
\* identifiers, beside stamped resource-type variables
C7_Witness ==
    /\ IsBundle
    /\ Len(CompiledLists[1]) = 2
    /\ CompiledLists[1][1]["name"] = "var1" /\ CompiledLists[1][2]["name"] = "var2"
    /\ CompiledLists[1][1]["uuid"] # CompiledLists[1][2]["uuid"]
    /\ Len(CompiledLists[2]) = 1 /\ Len(CompiledLists[3]) = 1
    /\ Len(BundleIds) = 9

\* the values uuid4 produced during this compile call
GeneratedIds == {UuidOf(m) : m \in 1..(uuidNext - 1)}

\* C8 as claimed: an element that already carries an identifier when it
\* reaches the stamper keeps that identifier.
C8_DeclaredIdentifierKept ==
    IsBundle =>
        \A k \in 1..4 : \A i \in 1..Len(DeclaredLists[k]) :
            Has(DeclaredLists[k][i], "uuid") =>
                CompiledLists[k][i]["uuid"] = DeclaredLists[k][i]["uuid"]

\* C8 amended: every auth-schema or variable element is given an identifier
\* freshly generated during the call, whether or not it already carried one;
\* an identifier it carried is replaced.
C8_IdentifierAlwaysFresh ==
    IsBundle =>
        \A k \in 1..4 : \A i \in 1..Len(DeclaredLists[k]) :
            /\ CompiledLists[k][i]["uuid"] \in GeneratedIds
            /\ Has(DeclaredLists[k][i], "uuid") =>
                 CompiledLists[k][i]["uuid"] # DeclaredLists[k][i]["uuid"]

\* C8 witness: an auth-schema entry declared with an identifier, compiled
\* with a generated one
C8_Witness ==
    /\ IsBundle
    /\ Len(DeclaredLists[1]) >= 1
    /\ Has(DeclaredLists[1][1], "uuid")
    /\ DeclaredLists[1][1]["uuid"] = "declared-1"
    /\ CompiledLists[1][1]["uuid"] = "uuid4-3"

Payloads ==
    IF Has(compiled, "provider")
    THEN {ProviderPayload, ResourceTypePayload, AccountPayload}
    ELSE {compiled}

\* C9: every payload the assembler produces (the single account payload, and
\* the provider, resource_type and account payloads of a bundle) has metadata
\* containing kind, name and uuid, and spec containing name and resources.
C9_EnvelopeShape ==
    (apc = "compiled" /\ compiled # NonePayload) =>
        \A p \in Payloads :
            /\ {"kind", "name", "uuid"} \subseteq DOMAIN p["metadata"]
            /\ {"name", "resources"} \subseteq DOMAIN p["spec"]

\* C23: compile_account returns the bundle, with exactly the keys provider,
\* resource_type and account, if and only if the declared account type is
\* "credential_provider"; for every other type it returns a single
\* {metadata, spec} payload; every bundle's account payload has
\* spec.resources.type "custom_provider", the tag create_account,
\* compile_account_command and update_account_from_dsl read, and no single
\* payload is taken for a bundle by that tag.
C23_BundleIffCredentialProvider ==
    (apc = "compiled" /\ userAccount # NoAccount) =>
        IF userAccount["type"] = "credential_provider"
        THEN /\ DOMAIN compiled = {"provider", "resource_type", "account"}
             /\ compiled["account"]["spec"]["resources"]["type"] = "custom_provider"
             /\ BundleTag(compiled) = "custom_provider"
        ELSE /\ DOMAIN compiled = {"metadata", "spec"}
             /\ BundleTag(compiled) # "custom_provider"

\* C23 witness: a credential_provider account compiled to the three payloads
C23_Witness ==
    /\ apc = "compiled"
    /\ userAccount # NoAccount
    /\ userAccount["type"] = "credential_provider"
    /\ DOMAIN compiled = {"provider", "resource_type", "account"}
    /\ {compiled[k]["metadata"]["kind"] : k \in DOMAIN compiled}
         = {"provider", "resource_type", "account"}

\* an account declared with type custom_provider compiled to a single payload
C23_SingleReached ==
    /\ apc = "compiled"
    /\ userAccount # NoAccount
    /\ userAccount["type"] = "custom_provider"
    /\ DOMAIN compiled = {"metadata", "spec"}
    /\ compiled["spec"]["resources"]["type"] = "custom_provider"

--------------------------------------------------------------------------
(* Properties of the configuration context *)

\* the identities of the handles the calls before the i-th saw or produced
HandleIdsBefore(i) ==
    {cfgLog[j]["before"]["id"] : j \in {k \in 1..i : cfgLog[k]["before"] # NoHandle}}
    \cup {cfgLog[j]["after"]["id"] : j \in {k \in 1..(i - 1) : cfgLog[k]["after"] # NoHandle}}

\* the i-th call was a get_config_handle that constructed a handle
Creating(i) ==
    /\ cfgLog[i]["op"] = "get"
    /\ ~cfgLog[i]["raised"]
    /\ cfgLog[i]["returned"] # NoHandle
    /\ cfgLog[i]["returned"]["id"] \notin HandleIdsBefore(i)

\* what the most recent creating call before the i-th returned
LastCreated(i) ==
    LET cs == {j \in 1..(i - 1) : Creating(j)}
    IN  IF cs = {} THEN NoHandle
        ELSE cfgLog[CHOOSE j \in cs : \A k \in cs : k <= j]["returned"]

\* the handle h holds the sections of the file at path in fs
BuiltFrom(h, fs, path) ==
    LET items == fs[path]
        In(section) == {items[n] : n \in {m \in 1..Len(items) : items[m][1] = section}}
        Holds(config, section) ==
            /\ DOMAIN config = {it[2] : it \in In(section)}
            /\ \A it \in In(section) : config[it[2]] = it[3]
    IN  /\ Holds(h["server_config"], "SERVER")
        /\ Holds(h["project_config"], "PROJECT")
        /\ Holds(h["log_config"], "LOG")
        /\ Holds(h["categories_config"], "CATEGORIES")

\* C18: over any sequence of get_config_handle calls, a call with a
\* config_file always constructs and installs a new handle built from that
\* file; a call without a config_file constructs one only if none exists, and
\* otherwise returns, unchanged, the handle installed by the most recent
\* creating call.
C18_HandleCaching ==
    \A i \in 1..Len(cfgLog) :
        LET e == cfgLog[i]
        IN  e["op"] = "get" =>
              /\ e["config_file"] # "" =>
                    /\ Creating(i)
                    /\ e["after"] = e["returned"]
                    /\ BuiltFrom(e["returned"], e["files"], e["config_file"])
              /\ (e["config_file"] = "" /\ e["before"] # NoHandle) =>
                    /\ ~Creating(i)
                    /\ e["returned"] = e["before"]
                    /\ e["after"] = e["before"]
                    /\ e["returned"] = LastCreated(i)
              /\ (e["config_file"] = "" /\ e["before"] = NoHandle /\ ~e["raised"]) =>
                    /\ Creating(i)
                    /\ e["after"] = e["returned"]

\* C18 witness: a handle built from b.ini replaces the one built from a.ini
\* and is what the next call without a file returns
C18_Witness ==
    /\ Len(cfgLog) = 3
    /\ cfgLog[1]["op"] = "get" /\ cfgLog[1]["config_file"] = "a.ini"
    /\ cfgLog[2]["op"] = "get" /\ cfgLog[2]["config_file"] = "b.ini"
    /\ cfgLog[3]["op"] = "get" /\ cfgLog[3]["config_file"] = ""
    /\ cfgLog[2]["returned"]["id"] # cfgLog[1]["returned"]["id"]
    /\ cfgLog[3]["returned"] = cfgLog[2]["returned"]
    /\ CONFIG_HANDLE = cfgLog[2]["returned"]

\* C19: set_dsl_config rewrites the init file and then the config file and
\* leaves the cached handle, with the server, project, log and categories
\* values it holds, unchanged; a following get_config_handle() without
\* config_file returns the handle cached before the update.
C19_SetLeavesContext ==
    \A i \in 1..Len(cfgLog) :
        LET e == cfgLog[i]
        IN  e["op"] = "set" =>
              /\ e["writes"] = <<INIT_FILE, e["config_file"]>>
              /\ ConfigLocation(e["files"], "") = e["config_file"]
              /\ SectionOf(ConfigFileParser(e["files"], e["config_file"]), "SERVER")["pc_ip"]
                   = e["host"]
              /\ e["after"] = e["before"]
              /\ (i < Len(cfgLog) /\ e["before"] # NoHandle
                    /\ cfgLog[i + 1]["op"] = "get" /\ cfgLog[i + 1]["config_file"] = "") =>
                    cfgLog[i + 1]["returned"] = e["before"]

\* C19 witness: a handle cached from a.ini, the configuration moved to b.ini
\* with another server, and the next call still returning the a.ini handle
C19_Witness ==
    /\ Len(cfgLog) = 3
    /\ cfgLog[1]["op"] = "get" /\ cfgLog[1]["config_file"] = "" /\ ~cfgLog[1]["raised"]
    /\ cfgLog[2]["op"] = "set" /\ cfgLog[2]["config_file"] = "b.ini"
    /\ cfgLog[2]["host"] = "10.0.0.2"
    /\ cfgLog[3]["op"] = "get" /\ cfgLog[3]["config_file"] = ""
    /\ cfgLog[3]["returned"] = cfgLog[1]["returned"]
    /\ cfgLog[3]["returned"]["server_config"]["pc_ip"] = "10.0.0.0"
    /\ ConfigLocation(files, "") = "b.ini"

--------------------------------------------------------------------------
(* Properties of the create and update flows *)

Submits(r, api) == r["api"] = api /\ r["op"] \in {"create", "update"}

\* a composite bundle is being submitted
BundleSubmitted == cmd \in {"create", "update"} /\ Has(compiled, "provider")

\* C4: when a composite bundle is submitted, by create_account or by
\* update_account_from_dsl, the provider request precedes the resource-type
\* request and the resource-type request precedes the account request; no
\* account request is issued before both earlier requests were issued.
C4_SubmissionOrder ==
    BundleSubmitted =>
        /\ \A i \in 1..Len(requests) :
             Submits(requests[i], "account") =>
                \E j, k \in 1..Len(requests) :
                    /\ j < k /\ k < i
                    /\ Submits(requests[j], "provider")
                    /\ Submits(requests[k], "resource_type")
        /\ \A k \in 1..Len(requests) :
             Submits(requests[k], "resource_type") =>
                \E j \in 1..(k - 1) : Submits(requests[j], "provider")
        /\ \A j \in 1..Len(requests) :
             Submits(requests[j], "provider") =>
                \A i \in 1..j : ~Submits(requests[i], "resource_type")
                                 /\ ~Submits(requests[i], "account")

\* C4 witness: an update of a bundle that got as far as the account update,
\* after the provider and resource-type updates
C4_Witness ==
    /\ cmd = "update"
    /\ BundleSubmitted
    /\ apc = "done"
    /\ flowResult = "returned"
    /\ Len(requests) = 8
    /\ Submits(requests[3], "provider")
    /\ Submits(requests[4], "resource_type")
    /\ Submits(requests[8], "account")

\* the create flow runs the same way
C4_CreateReached ==
    /\ cmd = "create"
    /\ BundleSubmitted
    /\ Len(requests) = 3
    /\ Submits(requests[1], "provider")
    /\ Submits(requests[2], "resource_type")
    /\ Submits(requests[3], "account")

\* compile_account was run on the .py file and found no Account class
CompiledNothing ==
    /\ cmd \in {"create", "update"}
    /\ EndsWith(accountFile, ".py")
    /\ userAccount = NoAccount
    /\ apc # "start"

\* C15: when compile_account finds no Account class in the file (returns
\* None), create_account_from_dsl and update_account_from_dsl return
\* (None, error) with a non-empty error and issue no request on the client:
\* no provider, resource-type or account call.
C15_NothingForwarded ==
    CompiledNothing =>
        /\ compiled = NonePayload
        /\ flowResult = "error"
        /\ flowReturn["res"] = EmptyDict
        /\ flowReturn["err"] # EmptyDict
        /\ flowReturn["err"]["error"] # ""
        /\ requests = <<>>

\* C15 witness: an update from a .py file without an Account class, ended
\* with the error logged and nothing requested
C15_Witness ==
    /\ cmd = "update"
    /\ CompiledNothing
    /\ flowReturn["err"] = [error |-> "User account not found in account.py", code |-> -1]
    /\ cmdResult = "error_logged"
    /\ requests = <<>>

\* the create command ends the same way
C15_CreateReached ==
    /\ cmd = "create"
    /\ CompiledNothing
    /\ flowResult = "error"
    /\ cmdResult = "error_logged"
    /\ requests = <<>>

\* the positions of the account update requests
AccountUpdates ==
    {i \in 1..Len(requests) : requests[i]["api"] = "account" /\ requests[i]["op"] = "update"}

\* C16: for both file formats (.json and .py), the update request's spec.name
\* and metadata.name equal updated_name when it is provided and the original
\* account name when it is not.
C16_UpdateRenames ==
    cmd = "update" =>
        \A i \in AccountUpdates :
            LET p == requests[i]["payload"]
                expected == IF updatedNameArg # "" THEN updatedNameArg ELSE nameArg
            IN  /\ p["spec"]["name"] = expected
                /\ p["metadata"]["name"] = expected

\* an update from a .json file with updated_name given, submitted under the
\* original name
C16_JsonUpdateKeepsName ==
    /\ cmd = "update"
    /\ EndsWith(accountFile, ".json")
    /\ updatedNameArg = "renamed"
    /\ AccountUpdates # {}
    /\ \A i \in AccountUpdates : requests[i]["payload"]["spec"]["name"] = "acct1"

\* an update from a .py file with updated_name given, submitted renamed
C16_DslUpdateRenames ==
    /\ cmd = "update"
    /\ EndsWith(accountFile, ".py")
    /\ updatedNameArg = "renamed"
    /\ AccountUpdates # {}
    /\ \A i \in AccountUpdates : requests[i]["payload"]["metadata"]["name"] = "renamed"

\* the requests verify_account issued
VerifyRequests ==
    {i \in 1..Len(requests) : requests[i]["op"] \in {"get_name_uuid_map", "verify"}}

\* the state the create response reports
ReportedState ==
    LET res == flowReturn["res"]
    IN  IF Has(res, "status") /\ Has(res["status"], "resources")
           /\ Has(res["status"]["resources"], "state")
        THEN res["status"]["resources"]["state"]
        ELSE "DRAFT"

\* C17: in create_account_command verify_account is invoked only when
\* --auto-verify is set, the create call returned no error and the created
\* account is not reported as DRAFT, and then after the account was created;
\* when creation returns an error or the account state is DRAFT, verification
\* is never invoked and the command ends in its failure path (the error
\* logged, exit -1 for DRAFT).
C17_VerifyOnlyAfterCreation ==
    cmd = "create" =>
        /\ (verifyCalls # <<>> \/ VerifyRequests # {}) =>
              /\ autoVerify
              /\ flowResult = "returned"
              /\ flowReturn["err"] = EmptyDict
              /\ ReportedState # "DRAFT"
              /\ verifyCalls = <<flowReturn["res"]["metadata"]["name"]>>
              /\ \E c \in 1..Len(requests) :
                    /\ requests[c]["api"] = "account" /\ requests[c]["op"] = "create"
                    /\ \A v \in VerifyRequests : c < v
        /\ (cmdResult # "running" /\ flowResult \in {"error", "returned_error"}) =>
              /\ verifyCalls = <<>>
              /\ VerifyRequests = {}
              /\ cmdResult = "error_logged"
        /\ (cmdResult # "running" /\ flowResult = "returned" /\ ReportedState = "DRAFT") =>
              /\ verifyCalls = <<>>
              /\ VerifyRequests = {}
              /\ cmdResult = "exit"
        /\ (cmdResult # "running" /\ flowResult = "returned" /\ ReportedState # "DRAFT"
              /\ autoVerify) => Len(verifyCalls) = 1

\* C17 witness: --auto-verify on an account that came back DRAFT: no
\* verification, exit -1
C17_Witness ==
    /\ cmd = "create"
    /\ autoVerify
    /\ flowResult = "returned"
    /\ Has(flowReturn["res"], "status")
    /\ ReportedState = "DRAFT"
    /\ cmdResult = "exit"
    /\ verifyCalls = <<>>
    /\ Len(requests) >= 1

\* --auto-verify on an account that came back ACTIVE: verified after creation
C17_Verified ==
    /\ cmd = "create"
    /\ autoVerify
    /\ ReportedState = "ACTIVE"
    /\ cmdResult = "returned"
    /\ verifyCalls = <<"acct1">>
    /\ requests[Len(requests)]["op"] = "verify"

\* the requests of kind op issued on api
RequestsOf(api, op) ==
    {i \in 1..Len(requests) : requests[i]["api"] = api /\ requests[i]["op"] = op}

\* C24: the account update request is addressed to the uuid of the existing
\* remote account looked up by name and carries that account's spec_version;
\* its metadata holds no uuid; for a custom_provider account compiled from
\* the definition the submitted provider_reference.uuid is the uuid of the
\* remote provider, looked up by updated_name or name, and not the one
\* generated during compilation.
C24_UpdateUsesRemoteIdentifiers ==
    cmd = "update" =>
        \A i \in AccountUpdates :
            LET r == requests[i]
                p == r["payload"]
            IN  /\ r["uuid"] = RemoteAccount["metadata"]["uuid"]
                /\ r["uuid"] \notin GeneratedIds
                /\ \E l \in RequestsOf("account", "list") :
                      l < i /\ requests[l]["name"] = nameArg
                /\ p["metadata"]["spec_version"] = RemoteAccount["metadata"]["spec_version"]
                /\ ~Has(p["metadata"], "uuid")
                /\ Has(compiled, "provider") =>
                      LET ref == p["spec"]["resources"]["data"]["provider_reference"]
                      IN  /\ ref["uuid"] = RemoteProvider["metadata"]["uuid"]
                          /\ ref["uuid"] \notin GeneratedIds
                          /\ ref["uuid"] # compiled["provider"]["metadata"]["uuid"]
                          /\ \E g \in RequestsOf("provider", "read") :
                                /\ g < i
                                /\ requests[g]["name"] =
                                     (IF updatedNameArg # "" THEN updatedNameArg
                                      ELSE nameArg)

\* C24 witness: a renaming update of a bundle, submitted with the remote
\* provider's uuid where the compiled account payload held a generated one
C24_Witness ==
    /\ cmd = "update"
    /\ updatedNameArg = "renamed"
    /\ Has(compiled, "provider")
    /\ AccountUpdates = {8}
    /\ compiled["account"]["spec"]["resources"]["data"]["provider_reference"]["uuid"]
         = "uuid4-2"
    /\ requests[8]["payload"]["spec"]["resources"]["data"]["provider_reference"]["uuid"]
         = "remote-provider"
    /\ requests[8]["uuid"] = "remote-account"
    /\ requests[5]["name"] = "renamed"


--------------------------------------------------------------------------
(* Properties of delete_account *)

DeleteRequestsSent == SelectSeq(delRequests, LAMBDA r : r["op"] = "delete")

ListRequestsSent == SelectSeq(delRequests, LAMBDA r : r["op"] = "list")

\* the positions of the names that got as far as a delete request
DeleteReached == {i \in 1..Len(delDone) : delDone[i] \in {"deleted", "delete_error"}}

\* C26: the names are handled in order; a name whose lookup or delete fails
\* ends the call with an exception, no later name is looked up or deleted and
\* the caches are not synced; a lookup that matches no account or several
\* sends no delete request; the Account, AhvImage and AhvSubnet caches are
\* synced exactly once, and only when every name was deleted
C26_DeleteStopsAtFirstFailure ==
    LET n == Len(delDone)
        dels == DeleteRequestsSent
        lists == ListRequestsSent
    IN  /\ n <= Len(delNames)
        /\ Len(lists) = n
        /\ \A i \in 1..n : lists[i]["name"] = delNames[i]
        /\ \A i \in 1..n :
               delDone[i] # "deleted" =>
                   /\ i = n
                   /\ delResult = "raised"
                   /\ delSynced = <<>>
        /\ Len(dels) = Cardinality(DeleteReached)
        /\ \A i \in DeleteReached :
               dels[Cardinality({j \in DeleteReached : j <= i})]["uuid"]
                   = RemoteAccountId(delNames[i])
        /\ \A i \in 1..n :
               delDone[i] \in {"none", "many"} => i \notin DeleteReached /\ Len(dels) = i - 1
        /\ delResult = "raised" => n >= 1 /\ delDone[n] # "deleted" /\ delSynced = <<>>
        /\ delSynced # <<>> =>
               /\ delSynced = <<(<<"ACCOUNT", "AHV_DISK_IMAGE", "AHV_SUBNET">>)>>
               /\ delResult = "returned"
               /\ n = Len(delNames)
               /\ \A i \in 1..n : delDone[i] = "deleted"
        /\ delResult = "returned" => Len(delSynced) = 1

\* the second of three names matches several accounts after the first was deleted
C26_Witness ==
    /\ delNames = <<"aws_acc", "ndb_acc", "aws_acc">>
    /\ delDone = <<"deleted", "many">>
    /\ delResult = "raised"
    /\ Len(DeleteRequestsSent) = 1
    /\ delSynced = <<>>

\* three names deleted and the caches synced
C26_SyncReached ==
    /\ Len(delNames) = 3
    /\ Len(DeleteRequestsSent) = 3
    /\ delResult = "returned"
    /\ Len(delSynced) = 1

--------------------------------------------------------------------------
(* Properties of repeated compilation *)

\* the heap model and the value model of the hook describe the same mapping
HeapAgreesWithValues ==
    recKind = "project" => \A i \in 1..Len(runs) : runs[i]["payload"] = ProjectCompile(pdecl)

\* C21: after any number of compiles every provider's declared
\* subnet_reference_list, external_network_list and default_subnet_reference
\* and the declared quota map still hold the declared values, and the lists
\* the hook appends to are objects of the returned mapping, not of the
\* declaration
C21_DeclarationUntouched ==
    recKind = "project" =>
        LET declared == DeclaredHeap(pdecl)
            given == ProviderAndQuotaIds(pdecl)
        IN  /\ \A id \in given : Has(heap, id) /\ heap[id] = declared[id]
            /\ \A i \in 1..Len(runs) :
               \A k \in {"subnet_reference_list", "external_network_list",
                         "account_reference_list"} \cap DOMAIN runs[i]["refs"] :
                   runs[i]["refs"][k] \notin given

\* two nutanix_pc providers with subnets and a quota map, compiled into a
\* project that declares no subnets itself
C21_Witness ==
    /\ recKind = "project"
    /\ Len(runs) >= 1
    /\ Has(pdecl, "quotas")
    /\ ~Has(pdecl, "subnet_reference_list")
    /\ Len(Get(pdecl, "provider_list", <<>>)) = 2
    /\ Get(runs[1]["payload"], "subnet_reference_list", <<>>) = <<"A", "B", "A", "B">>
    /\ Get(runs[1]["refs"], "default_subnet_reference", "")
           = ProviderId(2, "default_subnet_reference")
    /\ Has(runs[1]["payload"], "resource_domain")
    /\ heap[ProviderId(1, "subnet_reference_list")] = <<"A", "B">>
    /\ heap[QuotasId] = << <<"STORAGE", 5>>, <<"VCPUS", 2>> >>

\* a generated identifier moved k places along the generator; any other
\* value is left alone
ShiftId(v, k) ==
    IF \E m \in 1..uuidNext : v = UuidOf(m)
    THEN UuidOf((CHOOSE m \in 1..uuidNext : v = UuidOf(m)) + k)
    ELSE v

\* the uuid of every stamped element of a list
ShiftElements(list, k) ==
    [i \in 1..Len(list) |-> [list[i] EXCEPT !["uuid"] = ShiftId(@, k)]]

\* the places of a compiled account that hold generated identifiers:
\* metadata.uuid, the uuid of stamped elements, and provider references
ShiftIds(payload, k) ==
    IF payload = NonePayload THEN payload
    ELSE IF ~Has(payload, "provider")
    THEN [payload EXCEPT !["metadata"]["uuid"] = ShiftId(@, k)]
    ELSE [provider |->
             [payload["provider"] EXCEPT
                 !["metadata"]["uuid"] = ShiftId(@, k),
                 !["spec"]["resources"]["auth_schema_list"] = ShiftElements(@, k)],
          resource_type |->
             [payload["resource_type"] EXCEPT
                 !["metadata"]["uuid"] = ShiftId(@, k),
                 !["spec"]["resources"]["provider_reference"]["uuid"] = ShiftId(@, k),
                 !["spec"]["resources"]["variable_list"] = ShiftElements(@, k),
                 !["spec"]["resources"]["schema_list"] = ShiftElements(@, k),
                 !["spec"]["resources"]["action_list"] = ShiftElements(@, k)],
          account |->
             [payload["account"] EXCEPT
                 !["metadata"]["uuid"] = ShiftId(@, k),
                 !["spec"]["resources"]["data"]["provider_reference"]["uuid"] = ShiftId(@, k),
                 !["spec"]["resources"]["data"]["variable_list"] = ShiftElements(@, k)]]

C22_ProjectRecompiled ==
    /\ recKind = "project"
    /\ Len(runs) = 2
    /\ Len(Get(pdecl, "provider_list", <<>>)) = 2
    /\ Has(pdecl, "subnet_reference_list")
    /\ runs[2]["payload"]["subnet_reference_list"] = <<"S0", "A", "B", "A", "B">>

======================================================================
